---- MODULE Spec2Model ----
(***************************************************************************)
(* DocuGenius: the response-parsing pipeline (services/geminiService.ts),  *)
(* the truncation repairer of its earlier revision (unnamed/part_004) and  *)
(* the balanced-block scanner of the PDF preview (unnamed/part_001).       *)
(*                                                                         *)
(* Texts are sequences of one-character strings.  JavaScript indices are   *)
(* 0-based and are kept 0-based here: CharAt(s, i) is s[i] of the source.  *)
(***************************************************************************)
EXTENDS Integers, Sequences, FiniteSets, TLC

VARIABLES
    \* ---- extractBalancedBlock (part_001:26-86)
    source,       \* the text scanned
    startIdx,     \* the index the scan starts at
    i,            \* the loop cursor
    openBraces,   \* the depth counter
    foundStart,   \* whether an opening brace was counted
    inString,     \* "null" or the delimiter of the string the cursor is in
    inComment,    \* "null", "//" or "/*"
    scanPc,       \* "idle" | "loop" | "returned"
    scanResult,   \* [isNull |-> BOOLEAN, text |-> the block]
    \* ---- analyzeDocument / parseRobustJson (services/geminiService.ts,
    \*      part_004)
    responseText, \* the text of the model's response
    pPc,          \* the position in the pipeline
    current,      \* cleanJson(text)
    route,        \* the strategy that returned: "direct" | "quoted" | "fuzzy"
    parsed,       \* the value parseRobustJson returned
    result,       \* the value analyzeDocument returned
    pErr,         \* the message of the Error thrown, "" when none
    \* ---- analyzeDocument: the call of the model (services/geminiService.ts)
    retryCount,   \* the retryCount of the loop around generateContent
    calls,        \* the calls of generateContent made so far
    \* ---- PdfPreview (part_001:16-263)
    generation,   \* the runs of the effect so far; the last is the current one
    mounted,      \* the mounted flag of each run of the effect
    genPc,        \* the position of each run's generatePdf
    pdfUrl,       \* 0 for null, else the run whose data URL is kept
    previewError, \* 0 for null, else the run whose message is kept
    loading,      \* the loading state
    unmounted,    \* whether the component was unmounted
    \* ---- App (part_000:32-190)
    user,         \* "null", or whether the user has a saved key
    envKey,       \* whether process.env.API_KEY is set
    targetFile,   \* whether a target file is selected
    isAnalyzing,  \* the isAnalyzing state
    showKeyModal, \* the showKeyModal state
    appResult,    \* result: 0 for null, else the analysis it came from
    appError,     \* error: 0 for null, else the analysis it came from
    logs,         \* the log list; each line is the analysis that wrote it
    analyses,     \* the calls of runAnalysis that reached analyzeDocument
    analysisPc,   \* "idle" | "awaiting": the position of runAnalysis
    logoutAt,     \* the value of analyses at the last handleLogout
    \* ---- App: the reference files, and the object store 'templates' of
    \*      templateStorage (services/templateStorage.ts)
    referenceFiles, \* the referenceFiles state: the files in display order
    store,          \* the records of the object store: [id, name]
    removals,       \* the calls of removeReference: position, index, file
    library,        \* the names listed in /default-library.json
    loads           \* the calls of loadSharedLibrary

scanVars == <<source, startIdx, i, openBraces, foundStart, inString, inComment,
              scanPc, scanResult>>

pipeVars == <<responseText, pPc, current, route, parsed, result, pErr>>

callVars == <<retryCount, calls>>

previewVars == <<generation, mounted, genPc, pdfUrl, previewError, loading,
                 unmounted>>

sessionVars == <<user, envKey, targetFile, isAnalyzing, showKeyModal, appResult,
                 appError, logs, analyses, analysisPc, logoutAt>>

templateVars == <<referenceFiles, store, removals>>

libraryVars == <<library, loads>>

appVars == <<previewVars, sessionVars, templateVars, libraryVars>>

vars == <<scanVars, pipeVars, callVars, appVars>>

\* ------------------------------------------------------------------------
\* Bounds of the checked inputs

\* longest text over the full scanner alphabet
MaxLenAll == 3
\* longest text over each of the four-character alphabets
MaxLen == 6
\* longest text over the block-comment alphabet
MaxLenBlock == 7
\* largest start index tried
MaxStart == 1
\* most runs of the preview effect
MaxGenerations == 3
\* most analyses started
MaxAnalyses == 2
\* most progress lines of one analysis
MaxProgress == 1
\* the reference files on display
MaxFiles == 3
\* most calls of removeReference
MaxRemovals == 2
\* the names a shared library can list, and most items of one
MaxNames == 2
MaxItems == 2
\* most calls of loadSharedLibrary
MaxLoads == 2

\* ------------------------------------------------------------------------
\* Characters

LBRACE == "{"
RBRACE == "}"
DQUOTE == "\""
SQUOTE == "'"
\* the backtick (the lexer of TLA+ takes no backtick in a string)
BTICK == "bt"
BSLASH == "\\"
SLASH == "/"
STAR == "*"
LF == "\n"
OTHER_CH == "x"

AlphaAll == {LBRACE, RBRACE, DQUOTE, SQUOTE, BTICK, BSLASH, SLASH, STAR, LF, OTHER_CH}
\* braces with: a delimiter and the escape character; two delimiters; the
\* line comment; the block comment; a delimiter and the slash
AlphaEsc == {LBRACE, RBRACE, DQUOTE, BSLASH}
AlphaQuo == {LBRACE, RBRACE, DQUOTE, SQUOTE}
AlphaLine == {LBRACE, RBRACE, SLASH, LF}
AlphaBlock == {LBRACE, RBRACE, SLASH, STAR}
AlphaMix == {LBRACE, RBRACE, DQUOTE, SLASH}

StringsOver(alpha, n) == UNION {[1..k -> alpha] : k \in 0..n}

Min(a, b) == IF a < b THEN a ELSE b
Max(a, b) == IF a > b THEN a ELSE b

\* s[i] of JavaScript: the character at 0-based index i, "" past the end
\* (the scanner's nextChar).
CharAt(s, idx) == IF idx >= 0 /\ idx < Len(s) THEN s[idx + 1] ELSE ""

\* s.substring(a, b): both indices are clamped to 0 .. s.length and swapped
\* when a > b; the characters at indices min .. max-1.
Substring(s, a, b) ==
    LET ca == Max(0, Min(a, Len(s)))
        cb == Max(0, Min(b, Len(s)))
    IN SubSeq(s, Min(ca, cb) + 1, Max(ca, cb))

\* s.slice(a) for 0 <= a
SliceFrom(s, a) == SubSeq(s, a + 1, Len(s))

\* ------------------------------------------------------------------------
\* extractBalancedBlock, one loop iteration at a time

IsQuote(c) == c \in {DQUOTE, SQUOTE, BTICK}

\* StringAfter without the test for comments: a quote opens a string anywhere.
StringAfterInComment(c, str, cmt) ==
    IF str # "null" THEN (IF c = str THEN "null" ELSE str)
    ELSE IF IsQuote(c) THEN c ELSE "null"

\* "Handle Strings": the delimiter state after the character c.
StringAfter(c, str, cmt) ==
    IF cmt # "null" THEN str
    ELSE IF str # "null" THEN (IF c = str THEN "null" ELSE str)
    ELSE IF IsQuote(c) THEN c ELSE "null"

\* CommentAfter with the line comment forgotten: only /* opens a comment.
CommentAfterNoLine(c, next, str, cmt) ==
    IF str # "null" THEN [cmt |-> cmt, skip |-> FALSE]
    ELSE IF cmt = "/*" THEN
        IF c = STAR /\ next = SLASH THEN [cmt |-> "null", skip |-> TRUE]
        ELSE [cmt |-> "/*", skip |-> FALSE]
    ELSE IF c = SLASH /\ next = STAR THEN [cmt |-> "/*", skip |-> TRUE]
    ELSE [cmt |-> "null", skip |-> FALSE]

\* "Handle Comments": the comment state after the character c (next is the
\* character behind it), and whether the cursor skips that next character.
CommentAfter(c, next, str, cmt) ==
    IF str # "null" THEN [cmt |-> cmt, skip |-> FALSE]
    ELSE IF cmt = "//" THEN
        [cmt |-> IF c = LF THEN "null" ELSE "//", skip |-> FALSE]
    ELSE IF cmt = "/*" THEN
        IF c = STAR /\ next = SLASH THEN [cmt |-> "null", skip |-> TRUE]
        ELSE [cmt |-> "/*", skip |-> FALSE]
    ELSE IF c = SLASH /\ next = SLASH THEN [cmt |-> "//", skip |-> TRUE]
    ELSE IF c = SLASH /\ next = STAR THEN [cmt |-> "/*", skip |-> TRUE]
    ELSE [cmt |-> "null", skip |-> FALSE]

\* BraceDelta without the test for strings and comments.
BraceDeltaUnlexed(c, str, cmt) ==
    IF c = LBRACE THEN 1 ELSE IF c = RBRACE THEN -1 ELSE 0

\* "Handle Braces": the change of the depth counter at the character c.
BraceDelta(c, str, cmt) ==
    IF str = "null" /\ cmt = "null"
    THEN (IF c = LBRACE THEN 1 ELSE IF c = RBRACE THEN -1 ELSE 0)
    ELSE 0

BraceOpens(c, str, cmt) == str = "null" /\ cmt = "null" /\ c = LBRACE

ScanInputs ==
    StringsOver(AlphaAll, MaxLenAll)
        \cup StringsOver(AlphaEsc, MaxLen) \cup StringsOver(AlphaQuo, MaxLen)
        \cup StringsOver(AlphaLine, MaxLen) \cup StringsOver(AlphaBlock, MaxLenBlock)
        \cup StringsOver(AlphaMix, MaxLen)

NoResult == [isNull |-> TRUE, text |-> <<>>]

\* undefined of JavaScript, as a value of the kind defined with JSON.parse
Undefined == [k |-> "undefined", v |-> 0]

\* no call of the model was made
CallIdle == retryCount = 0 /\ calls = 0

Generations == 1..MaxGenerations

\* PdfPreview before its first effect: useState(null), useState(null),
\* useState(true)
PreviewIdle ==
    /\ generation = 0
    /\ mounted = [g \in Generations |-> FALSE]
    /\ genPc = [g \in Generations |-> "none"]
    /\ pdfUrl = 0
    /\ previewError = 0
    /\ loading = TRUE
    /\ unmounted = FALSE

\* App before the login: the useState values of the component
SessionIdle ==
    /\ user = "null"
    /\ envKey = FALSE
    /\ targetFile = FALSE
    /\ isAnalyzing = FALSE
    /\ showKeyModal = FALSE
    /\ appResult = 0
    /\ appError = 0
    /\ logs = <<>>
    /\ analyses = 0
    /\ analysisPc = "idle"
    /\ logoutAt = 0

Removals == 1..MaxRemovals

NoRemoval == [pc |-> "none", index |-> 0, file |-> 0, removed |-> 0]

\* no reference file, an empty store
TemplatesIdle ==
    /\ referenceFiles = <<>>
    /\ store = {}
    /\ removals = [c \in Removals |-> NoRemoval]

Loads == 1..MaxLoads

NoLoad == [pc |-> "none", names |-> {}, at |-> 0, hasNew |-> FALSE,
           allStored |-> FALSE, added |-> 0, ret |-> FALSE]

\* loadSharedLibrary not called
LibraryIdle ==
    /\ library = <<>>
    /\ loads = [c \in Loads |-> NoLoad]

\* the components of the application, none of them running
AppIdle == PreviewIdle /\ SessionIdle /\ TemplatesIdle /\ LibraryIdle

\* no response is being parsed
PipeIdle ==
    /\ responseText = <<>>
    /\ pPc = "idle"
    /\ current = <<>>
    /\ route = "none"
    /\ parsed = Undefined
    /\ result = Undefined
    /\ pErr = ""

ScanInit ==
    /\ PipeIdle
    /\ CallIdle
    /\ AppIdle
    /\ source \in ScanInputs \ {<<>>}
    /\ startIdx \in 0..Min(MaxStart, Len(source) - 1)
    /\ i = startIdx
    /\ openBraces = 0
    /\ foundStart = FALSE
    /\ inString = "null"
    /\ inComment = "null"
    /\ scanPc = "loop"
    /\ scanResult = NoResult

\* ScanEscape without the skip of the escaped character.
ScanEscapeNoSkip ==
    /\ scanPc = "loop"
    /\ i < Len(source)
    /\ inString # "null"
    /\ CharAt(source, i) = BSLASH
    /\ i' = i + 1
    /\ UNCHANGED pipeVars
    /\ UNCHANGED callVars
    /\ UNCHANGED appVars
    /\ UNCHANGED <<source, startIdx, openBraces, foundStart, inString, inComment,
                   scanPc, scanResult>>

\* ScanEscape with the cursor moved back instead of forward.
ScanEscapeRewind ==
    /\ scanPc = "loop"
    /\ i < Len(source)
    /\ inString # "null"
    /\ CharAt(source, i) = BSLASH
    /\ i' = i - 1
    /\ UNCHANGED pipeVars
    /\ UNCHANGED callVars
    /\ UNCHANGED appVars
    /\ UNCHANGED <<source, startIdx, openBraces, foundStart, inString, inComment,
                   scanPc, scanResult>>

\* if (inString && char === '\\') { i++; continue; }
ScanEscape ==
    /\ scanPc = "loop"
    /\ i < Len(source)
    /\ inString # "null"
    /\ CharAt(source, i) = BSLASH
    /\ i' = i + 2
    /\ UNCHANGED pipeVars
    /\ UNCHANGED callVars
    /\ UNCHANGED appVars
    /\ UNCHANGED <<source, startIdx, openBraces, foundStart, inString, inComment,
                   scanPc, scanResult>>

\* Any other iteration: strings, comments, braces, then the return test.
ScanChar ==
    /\ scanPc = "loop"
    /\ i < Len(source)
    /\ ~(inString # "null" /\ CharAt(source, i) = BSLASH)
    /\ LET c == CharAt(source, i)
           next == CharAt(source, i + 1)
           str == StringAfter(c, inString, inComment)
           cm == CommentAfter(c, next, str, inComment)
           j == IF cm.skip THEN i + 1 ELSE i
           depth == openBraces + BraceDelta(c, str, cm.cmt)
           found == foundStart \/ BraceOpens(c, str, cm.cmt)
       IN /\ inString' = str
          /\ inComment' = cm.cmt
          /\ openBraces' = depth
          /\ foundStart' = found
          /\ IF found /\ depth = 0
             THEN /\ scanResult' = [isNull |-> FALSE,
                                    text |-> Substring(source, startIdx, j + 1)]
                  /\ scanPc' = "returned"
                  /\ i' = j
             ELSE /\ i' = j + 1
                  /\ UNCHANGED <<scanResult, scanPc>>
    /\ UNCHANGED <<source, startIdx>>
    /\ UNCHANGED pipeVars
    /\ UNCHANGED callVars
    /\ UNCHANGED appVars

\* The loop ran off the text: return null.
ScanExhausted ==
    /\ scanPc = "loop"
    /\ i >= Len(source)
    /\ scanPc' = "returned"
    /\ scanResult' = NoResult
    /\ UNCHANGED <<source, startIdx, i, openBraces, foundStart, inString, inComment>>
    /\ UNCHANGED pipeVars
    /\ UNCHANGED callVars
    /\ UNCHANGED appVars

ScanNext == ScanEscape \/ ScanChar \/ ScanExhausted

SpecScan == ScanInit /\ [][ScanNext]_vars


\* ------------------------------------------------------------------------
\* The lexical reading of a text the scanner's contract refers to, stated
\* token by token and not character by character: a string literal runs from
\* its delimiter to the next occurrence of the same delimiter that is preceded
\* by an even number of backslashes; a line comment from // to the next line
\* feed; a block comment from /* to the next */ behind it.  A token that is
\* not closed runs to the end of the text.  -1 stands for "no such index".

RECURSIVE BackslashRun(_, _, _)
\* the number of backslashes directly before index j, not reaching below lo
BackslashRun(s, j, lo) ==
    IF j - 1 >= lo /\ CharAt(s, j - 1) = BSLASH
    THEN 1 + BackslashRun(s, j - 1, lo) ELSE 0

LeastOr(S) == IF S = {} THEN -1 ELSE CHOOSE x \in S : \A y \in S : x <= y

\* the index of the delimiter closing the string literal opened at p
RefStringEnd(s, p) ==
    LeastOr({j \in (p + 1)..(Len(s) - 1) :
                /\ CharAt(s, j) = CharAt(s, p)
                /\ BackslashRun(s, j, p + 1) % 2 = 0})

\* the index of the line feed ending the line comment opened at p
RefLineEnd(s, p) ==
    LeastOr({j \in (p + 2)..(Len(s) - 1) : CharAt(s, j) = LF})

\* the index of the slash ending the block comment opened at p
RefBlockEnd(s, p) ==
    LeastOr({j \in (p + 3)..(Len(s) - 1) :
                CharAt(s, j - 1) = STAR /\ CharAt(s, j) = SLASH})

RECURSIVE RefBraces(_, _)
\* the indices of the braces of s from index p on that lie in no string
\* literal and no comment, in text order
RefBraces(s, p) ==
    IF p >= Len(s) THEN <<>>
    ELSE LET c == CharAt(s, p)
             e == IF IsQuote(c) THEN RefStringEnd(s, p)
                  ELSE IF c = SLASH /\ CharAt(s, p + 1) = SLASH THEN RefLineEnd(s, p)
                  ELSE IF c = SLASH /\ CharAt(s, p + 1) = STAR THEN RefBlockEnd(s, p)
                  ELSE p
         IN IF e = -1 THEN <<>>
            ELSE IF c \in {LBRACE, RBRACE} THEN <<p>> \o RefBraces(s, p + 1)
            ELSE RefBraces(s, e + 1)

\* the depth after the first k of the braces bs of s
RefDepth(s, bs, k) ==
    Cardinality({n \in 1..k : CharAt(s, bs[n]) = LBRACE})
        - Cardinality({n \in 1..k : CharAt(s, bs[n]) = RBRACE})

\* the index at which, scanning from start, the depth is zero for the first
\* time with an opening brace seen
RefFirstZero(s, start) ==
    LET bs == RefBraces(s, start)
        ks == {k \in 1..Len(bs) :
                 /\ RefDepth(s, bs, k) = 0
                 /\ \E n \in 1..k : CharAt(s, bs[n]) = LBRACE}
    IN IF ks = {} THEN -1 ELSE bs[LeastOr(ks)]

\* the block the contract asks for
RefBlock(s, start) ==
    LET e == RefFirstZero(s, start)
    IN IF e = -1 THEN NoResult
       ELSE [isNull |-> FALSE, text |-> Substring(s, start, e + 1)]

\* a text whose structural braces nest: no prefix closes more than it opened
\* and the whole closes all it opened
RefBalanced(t) ==
    LET bs == RefBraces(t, 0)
    IN /\ \A k \in 1..Len(bs) : RefDepth(t, bs, k) >= 0
       /\ RefDepth(t, bs, Len(bs)) = 0

Has(s, chars) == \E n \in 1..Len(s) : s[n] \in chars

Returned == scanPc = "returned"
ReturnedBlock == scanPc = "returned" /\ ~scanResult.isNull

\* the braces of the returned block that lie in a string literal or a comment
HiddenBraces(t) ==
    {n \in 0..(Len(t) - 1) : CharAt(t, n) \in {LBRACE, RBRACE}}
        \ {RefBraces(t, 0)[k] : k \in 1..Len(RefBraces(t, 0))}

\* ------------------------------------------------------------------------
\* C1: every block the scanner returns is brace-balanced over its structural
\* braces: as many closing as opening ones, and no prefix of it closes more
\* than it opened (the depth never goes below zero), also when the scan
\* starts before the first opening brace.
C1_BlockBalanced == ReturnedBlock => RefBalanced(scanResult.text)

\* C2: a brace inside a string literal is never counted, escapes included:
\* on a text without comment markers whose block starts at the start index,
\* the scanner returns exactly the block up to the structural closing brace
\* (and nothing when the literals hide it).
C2_StringBracesSkipped ==
    (Returned /\ CharAt(source, startIdx) = LBRACE /\ ~Has(source, {SLASH}))
        => scanResult = RefBlock(source, startIdx)

\* C2 witness: a block is returned whose string literal holds an escape and a
\* brace.
C2_Witness ==
    /\ ReturnedBlock
    /\ CharAt(source, startIdx) = LBRACE
    /\ ~Has(source, {SLASH})
    /\ Has(scanResult.text, {BSLASH})
    /\ HiddenBraces(scanResult.text) # {}

\* C3: a brace inside a line comment or a block comment is never counted: on
\* a text without string delimiters whose block starts at the start index,
\* the scanner returns exactly the block up to the structural closing brace.
C3_CommentBracesSkipped ==
    (Returned /\ CharAt(source, startIdx) = LBRACE
        /\ ~Has(source, {DQUOTE, SQUOTE, BTICK}))
        => scanResult = RefBlock(source, startIdx)

\* C3 witness: a block is returned that holds a brace inside a block comment
\* (the comment is closed, so the text holds a star).
C3_Witness ==
    /\ ReturnedBlock
    /\ CharAt(source, startIdx) = LBRACE
    /\ ~Has(source, {DQUOTE, SQUOTE, BTICK, LF})
    /\ HiddenBraces(scanResult.text) # {}

\* C3 witness of the line comment is the same state with a line feed.
C3_WitnessLine ==
    /\ ReturnedBlock
    /\ CharAt(source, startIdx) = LBRACE
    /\ ~Has(source, {DQUOTE, SQUOTE, BTICK, STAR})
    /\ HiddenBraces(scanResult.text) # {}

\* C4: a returned block is exactly the text from the start index through the
\* closing brace at which the depth is zero for the first time after an
\* opening brace.
C4_ExactSpan ==
    ReturnedBlock =>
        LET e == RefFirstZero(source, startIdx)
        IN /\ e # -1
           /\ CharAt(source, e) = RBRACE
           /\ scanResult.text = Substring(source, startIdx, e + 1)

\* C5: the scanner returns null whenever, from the start index on, the depth
\* never comes back to zero after an opening brace.
C5_NotFound ==
    (Returned /\ RefFirstZero(source, startIdx) = -1) => scanResult.isNull

\* C5 witness: null is returned for a text whose closing brace is hidden in
\* an unterminated string literal or comment.
C5_Witness ==
    /\ Returned
    /\ scanResult.isNull
    /\ foundStart
    /\ (inString # "null" \/ inComment # "null")
    /\ \E n \in (startIdx + 1)..Len(source) : source[n] = RBRACE

\* ========================================================================
\* The response texts of the parsing pipeline.  A text is a sequence of
\* symbols: a symbol is one character, or one whole word that the code
\* searches for or that JSON gives a meaning (a key of the schema, function,
\* import, null, ...), or PAD, a run of letters that holds none of them.
\* Width(c) is the number of characters the symbol stands for.

SP == " "
COLON == ":"
COMMA == ","
LBRACK == "["
RBRACK == "]"
SEMI == ";"
LPAREN == "("
RPAREN == ")"
EQUALS == "="
LETTER_N == "n"
LETTER_R == "r"
LETTER_T == "t"
CR == "cr"
TAB == "tab"
\* the zero-width space U+200B
ZWSP == "zwsp"
\* the three backticks of a code fence
FENCE == "fence"
PAD == "pad"

K_SUMMARY == "summary"
K_PDF == "pdfMakeCode"
K_XLS == "excelJSCode"
K_DATA == "extractedData"

Digits == {"0", "1", "3"}
WordSymbols ==
    {K_SUMMARY, K_PDF, K_XLS, K_DATA, "fileType", "detectedTables", "count",
     "dimensions", "pdf", "unknown", "json", "function", "import", "async",
     "const", "exportPDF", "exportToExcel", "null", "true", "false", "a",
     "added", "text", "from", "style", "ExcelJS", "exceljs", "saveAs",
     "saver", "PDF", "Excel", "failed", "Generated", "object", "Object",
     "headers", "title", "subtitle",
     LETTER_N, LETTER_R, LETTER_T, OTHER_CH, PAD} \cup Digits

\* a code text shorter than this is searched again as a function
\* (pdfMakeCode.length < 50); PAD stands for that many letters
MinCodeLength == 50

Width(c) ==
    CASE c = PAD -> MinCodeLength
      [] c = FENCE -> 3
      [] c = K_SUMMARY -> 7
      [] c \in {K_PDF, K_XLS} -> 11
      [] c \in {K_DATA, "exportToExcel"} -> 13
      [] c = "detectedTables" -> 14
      [] c = "dimensions" -> 10
      [] c = "exportPDF" -> 9
      [] c \in {"fileType", "function"} -> 8
      [] c = "unknown" -> 7
      [] c = "import" -> 6
      [] c \in {"async", "const", "count", "false"} -> 5
      [] c \in {"json", "null", "true"} -> 4
      [] c = "pdf" -> 3
      [] OTHER -> 1

RECURSIVE TextLength(_)
\* str.length
TextLength(s) == IF s = <<>> THEN 0 ELSE Width(Head(s)) + TextLength(Tail(s))

\* \s of a regular expression, as far as the texts hold it
IsSpace(c) == c \in {SP, LF, CR, TAB}

\* str.includes(word) for a word that is a symbol
Includes(s, word) == \E n \in 1..Len(s) : s[n] = word

\* str.startsWith("//")
StartsWithComment(s) == Len(s) >= 2 /\ s[1] = SLASH /\ s[2] = SLASH

\* ------------------------------------------------------------------------
\* JSON values, and JSON.parse over the symbols.  Every value is a record
\* [k, v]: k is its type, v its content (members and elements in text order).

JNull == [k |-> "null", v |-> 0]
JStr(t) == [k |-> "str", v |-> t]
JNum(n) == [k |-> "num", v |-> n]
JBool(b) == [k |-> "bool", v |-> b]
JObj(members) == [k |-> "obj", v |-> members]
JArr(elements) == [k |-> "arr", v |-> elements]

ParseFail == [ok |-> FALSE, val |-> Undefined, p |-> 0]

DigitValue(c) == IF c = "0" THEN 0 ELSE IF c = "1" THEN 1 ELSE 3

RECURSIVE SkipSpace(_, _)
SkipSpace(s, p) == IF IsSpace(CharAt(s, p)) THEN SkipSpace(s, p + 1) ELSE p

RECURSIVE ParseStringBody(_, _, _)
\* the string literal whose content starts at index p: escapes are decoded,
\* a raw line feed or an unknown escape is a syntax error
ParseStringBody(s, p, acc) ==
    LET c == CharAt(s, p)
        d == CharAt(s, p + 1)
    IN IF p >= Len(s) \/ c \in {LF, CR, TAB} THEN ParseFail
       ELSE IF c = DQUOTE THEN [ok |-> TRUE, val |-> JStr(acc), p |-> p + 1]
       ELSE IF c = BSLASH THEN
            IF d \in {DQUOTE, BSLASH, SLASH}
            THEN ParseStringBody(s, p + 2, Append(acc, d))
            ELSE IF d = LETTER_N THEN ParseStringBody(s, p + 2, Append(acc, LF))
            ELSE IF d = LETTER_R THEN ParseStringBody(s, p + 2, Append(acc, CR))
            ELSE IF d = LETTER_T THEN ParseStringBody(s, p + 2, Append(acc, TAB))
            ELSE ParseFail
       ELSE ParseStringBody(s, p + 1, Append(acc, c))

RECURSIVE ParseValue(_, _)
RECURSIVE ParseMembers(_, _, _)
RECURSIVE ParseElements(_, _, _)

\* the members of an object from index p on (behind "{" or a comma)
ParseMembers(s, p, acc) ==
    LET q == SkipSpace(s, p)
        key == IF CharAt(s, q) = DQUOTE THEN ParseStringBody(s, q + 1, <<>>)
               ELSE ParseFail
        c == SkipSpace(s, key.p)
        val == IF key.ok /\ CharAt(s, c) = COLON THEN ParseValue(s, c + 1)
               ELSE ParseFail
        e == SkipSpace(s, val.p)
        all == Append(acc, [key |-> key.val.v, val |-> val.val])
    IN IF ~val.ok THEN ParseFail
       ELSE IF CharAt(s, e) = COMMA THEN ParseMembers(s, e + 1, all)
       ELSE IF CharAt(s, e) = RBRACE
            THEN [ok |-> TRUE, val |-> JObj(all), p |-> e + 1]
       ELSE ParseFail

\* the elements of an array from index p on (behind "[" or a comma)
ParseElements(s, p, acc) ==
    LET val == ParseValue(s, p)
        e == SkipSpace(s, val.p)
        all == Append(acc, val.val)
    IN IF ~val.ok THEN ParseFail
       ELSE IF CharAt(s, e) = COMMA THEN ParseElements(s, e + 1, all)
       ELSE IF CharAt(s, e) = RBRACK
            THEN [ok |-> TRUE, val |-> JArr(all), p |-> e + 1]
       ELSE ParseFail

\* the value that starts at or behind index p
ParseValue(s, p) ==
    LET q == SkipSpace(s, p)
        c == CharAt(s, q)
    IN IF c = LBRACE THEN
            IF CharAt(s, SkipSpace(s, q + 1)) = RBRACE
            THEN [ok |-> TRUE, val |-> JObj(<<>>), p |-> SkipSpace(s, q + 1) + 1]
            ELSE ParseMembers(s, q + 1, <<>>)
       ELSE IF c = LBRACK THEN
            IF CharAt(s, SkipSpace(s, q + 1)) = RBRACK
            THEN [ok |-> TRUE, val |-> JArr(<<>>), p |-> SkipSpace(s, q + 1) + 1]
            ELSE ParseElements(s, q + 1, <<>>)
       ELSE IF c = DQUOTE THEN ParseStringBody(s, q + 1, <<>>)
       ELSE IF c \in Digits /\ CharAt(s, q + 1) \notin WordSymbols
            THEN [ok |-> TRUE, val |-> JNum(DigitValue(c)), p |-> q + 1]
       ELSE IF c \in {"true", "false"} /\ CharAt(s, q + 1) \notin WordSymbols
            THEN [ok |-> TRUE, val |-> JBool(c = "true"), p |-> q + 1]
       ELSE IF c = "null" /\ CharAt(s, q + 1) \notin WordSymbols
            THEN [ok |-> TRUE, val |-> JNull, p |-> q + 1]
       ELSE ParseFail

\* JSON.parse(text): [ok |-> FALSE] stands for the SyntaxError it throws
JSONparse(s) ==
    LET Whole(r) == IF r.ok /\ SkipSpace(s, r.p) = Len(s) THEN r ELSE ParseFail
    IN Whole(ParseValue(s, 0))

RECURSIVE LastMember(_, _)
\* the value of the last member of the members ms with the key
LastMember(ms, key) ==
    IF ms = <<>> THEN Undefined
    ELSE IF ms[Len(ms)].key = <<key>> THEN ms[Len(ms)].val
    ELSE LastMember(SubSeq(ms, 1, Len(ms) - 1), key)

\* obj.key of JavaScript for a parsed value that is not null: undefined for a
\* missing key and for a value that is no object
Prop(val, key) == IF val.k = "obj" THEN LastMember(val.v, key) ELSE Undefined

\* the truth value JavaScript gives a value in a condition
Truthy(val) ==
    CASE val.k \in {"undefined", "null"} -> FALSE
      [] val.k = "str" -> val.v # <<>>
      [] val.k = "num" -> val.v # 0
      [] val.k = "bool" -> val.v
      [] OTHER -> TRUE

\* ------------------------------------------------------------------------
\* cleanJson, fixEscapedNewlines and the key-quoting repair

RECURSIVE TrimStart(_)
TrimStart(s) == IF s # <<>> /\ IsSpace(Head(s)) THEN TrimStart(Tail(s)) ELSE s

RECURSIVE TrimEnd(_)
TrimEnd(s) ==
    IF s # <<>> /\ IsSpace(s[Len(s)]) THEN TrimEnd(SubSeq(s, 1, Len(s) - 1)) ELSE s

\* str.trim()
Trim(s) == TrimEnd(TrimStart(s))

\* str.indexOf(c) and str.lastIndexOf(c), -1 when c does not occur
IndexOf(s, c) == LeastOr({n \in 0..(Len(s) - 1) : CharAt(s, n) = c})
LastIndexOf(s, c) ==
    LET S == {n \in 0..(Len(s) - 1) : CharAt(s, n) = c}
    IN IF S = {} THEN -1 ELSE CHOOSE x \in S : \A y \in S : y <= x

\* str.replace(/[\u200B-\u200D\uFEFF]/g, '')
StripZeroWidth(s) == SelectSeq(s, LAMBDA c : c # ZWSP)

\* cleanJson of services/geminiService.ts
cleanJson(text) ==
    LET StripStartFence(t) ==
            IF Len(t) >= 2 /\ t[1] = FENCE /\ t[2] = "json" THEN SliceFrom(t, 2)
            ELSE IF Len(t) >= 1 /\ t[1] = FENCE THEN SliceFrom(t, 1)
            ELSE t
        StripEndFence(t) ==
            IF Len(t) >= 1 /\ t[Len(t)] = FENCE THEN SubSeq(t, 1, Len(t) - 1) ELSE t
        CutToBraces(t, firstBrace, lastBrace) ==
            IF firstBrace # -1 /\ lastBrace # -1
            THEN Substring(t, firstBrace, lastBrace + 1) ELSE t
        Cut(t) == CutToBraces(t, IndexOf(t, LBRACE), LastIndexOf(t, RBRACE))
    IN Trim(StripZeroWidth(Cut(StripEndFence(StripStartFence(Trim(text))))))

\* whether the literal two-character sequence backslash, n starts at index p
EscapedNewlineAt(s, p) == CharAt(s, p) = BSLASH /\ CharAt(s, p + 1) = LETTER_N

\* the index behind a match of \\n\s*\/\/ that starts at m, else -1
BeforeCommentMatch(s, m) ==
    LET End(q) == IF CharAt(s, q) = SLASH /\ CharAt(s, q + 1) = SLASH THEN q + 2 ELSE -1
    IN IF EscapedNewlineAt(s, m) THEN End(SkipSpace(s, m + 2)) ELSE -1

RECURSIVE FixBeforeComment(_, _)
\* .replace(/\\n\s*\/\//g, '\n //') from index p on
FixBeforeComment(s, p) ==
    LET At(m) ==
            IF m = -1 THEN SliceFrom(s, p)
            ELSE Substring(s, p, m) \o <<LF, SP, SLASH, SLASH>>
                     \o FixBeforeComment(s, BeforeCommentMatch(s, m))
    IN At(LeastOr({m \in p..(Len(s) - 1) : BeforeCommentMatch(s, m) # -1}))

\* the index of the first backslash, n at or behind p that no line
\* terminator precedes, -1 when there is none (the lazy .*? of the next
\* pattern)
FirstEscapedNewlineOnLine(s, p) ==
    LeastOr({q \in p..(Len(s) - 2) :
                /\ EscapedNewlineAt(s, q)
                /\ \A r \in p..(q - 1) : CharAt(s, r) \notin {LF, CR}})

\* the index of the backslash of a match of \/\/(.*?)\\n that starts at m,
\* else -1
AfterCommentMatch(s, m) ==
    IF CharAt(s, m) = SLASH /\ CharAt(s, m + 1) = SLASH
    THEN FirstEscapedNewlineOnLine(s, m + 2) ELSE -1

RECURSIVE FixAfterComment(_, _)
\* .replace(/\/\/(.*?)\\n/g, '//$1\n') from index p on
FixAfterComment(s, p) ==
    LET At(m) ==
            IF m = -1 THEN SliceFrom(s, p)
            ELSE Substring(s, p, AfterCommentMatch(s, m)) \o <<LF>>
                     \o FixAfterComment(s, AfterCommentMatch(s, m) + 2)
    IN At(LeastOr({m \in p..(Len(s) - 1) : AfterCommentMatch(s, m) # -1}))

\* the index behind a match of <c>\s*\\n that starts at m, else -1
AfterPunctMatch(s, c, m) ==
    IF CharAt(s, m) = c /\ EscapedNewlineAt(s, SkipSpace(s, m + 1))
    THEN SkipSpace(s, m + 1) + 2 ELSE -1

RECURSIVE FixAfterPunct(_, _, _)
\* .replace(/<c>\s*\\n/g, '<c>\n') from index p on, c one of ; { } , [ )
FixAfterPunct(s, c, p) ==
    LET At(m) ==
            IF m = -1 THEN SliceFrom(s, p)
            ELSE Substring(s, p, m) \o <<c, LF>>
                     \o FixAfterPunct(s, c, AfterPunctMatch(s, c, m))
    IN At(LeastOr({m \in p..(Len(s) - 1) : AfterPunctMatch(s, c, m) # -1}))

\* fixEscapedNewlines(code) for a string
fixEscapedNewlinesText(code) ==
    LET a == FixAfterComment(FixBeforeComment(code, 0), 0)
        b == FixAfterPunct(a, SEMI, 0)
        c == FixAfterPunct(b, LBRACE, 0)
        d == FixAfterPunct(c, RBRACE, 0)
        e == FixAfterPunct(d, COMMA, 0)
        f == FixAfterPunct(e, LBRACK, 0)
    IN FixAfterPunct(f, RPAREN, 0)

\* fixEscapedNewlines(code) for a value: a falsy value is returned as it is,
\* a string is repaired; for any other value .replace is no function and a
\* TypeError is thrown ([ok |-> FALSE]).
fixEscapedNewlines(val) ==
    IF ~Truthy(val) THEN [ok |-> TRUE, val |-> val]
    ELSE IF val.k = "str" THEN [ok |-> TRUE, val |-> JStr(fixEscapedNewlinesText(val.v))]
    ELSE [ok |-> FALSE, val |-> val]

\* the index behind the run of word symbols that starts at p
RECURSIVE SkipWord(_, _)
SkipWord(s, p) == IF CharAt(s, p) \in WordSymbols THEN SkipWord(s, p + 1) ELSE p

\* whether ([{,]\s*)([a-zA-Z0-9_]+?)\s*: matches at m
BareKeyMatch(s, m) ==
    LET Key(w) == SkipWord(s, w) > w /\ CharAt(s, SkipSpace(s, SkipWord(s, w))) = COLON
    IN CharAt(s, m) \in {LBRACE, COMMA} /\ Key(SkipSpace(s, m + 1))

RECURSIVE QuoteBareKeys(_, _)
\* current.replace(/([{,]\s*)([a-zA-Z0-9_]+?)\s*:/g, '$1"$2":') from index p on
QuoteBareKeys(s, p) ==
    LET Quote(m, w, e) ==
            Substring(s, p, w) \o <<DQUOTE>> \o Substring(s, w, e)
                \o <<DQUOTE, COLON>> \o QuoteBareKeys(s, SkipSpace(s, e) + 1)
        Word(m, w) == Quote(m, w, SkipWord(s, w))
        At(m) == IF m = -1 THEN SliceFrom(s, p) ELSE Word(m, SkipSpace(s, m + 1))
    IN At(LeastOr({m \in p..(Len(s) - 1) : BareKeyMatch(s, m)}))

\* ------------------------------------------------------------------------
\* The fuzzy extractors

RECURSIVE ReplacePair(_, _, _, _)
\* str.replace(/\\<c>/g, r): every backslash directly followed by c, from
\* index p on, becomes r
ReplacePair(s, c, r, p) ==
    LET At(m) ==
            IF m = -1 THEN SliceFrom(s, p)
            ELSE Substring(s, p, m) \o <<r>> \o ReplacePair(s, c, r, m + 2)
    IN At(LeastOr({m \in p..(Len(s) - 2) :
                      CharAt(s, m) = BSLASH /\ CharAt(s, m + 1) = c}))

unescapeJsonString(str) ==
    LET a == ReplacePair(str, DQUOTE, DQUOTE, 0)
        b == ReplacePair(a, LETTER_N, LF, 0)
        c == ReplacePair(b, LETTER_R, CR, 0)
        d == ReplacePair(c, LETTER_T, TAB, 0)
    IN ReplacePair(d, BSLASH, BSLASH, 0)

IsQuoteMark(c) == c \in {DQUOTE, SQUOTE}

\* the index behind a match of ["']key["']\s*:\s*["'] that starts at p, else -1
KeyStartMatch(s, key, p) ==
    LET c == SkipSpace(s, p + 3)
        q == SkipSpace(s, c + 1)
    IN IF /\ IsQuoteMark(CharAt(s, p)) /\ CharAt(s, p + 1) = key
          /\ IsQuoteMark(CharAt(s, p + 2)) /\ CharAt(s, c) = COLON
          /\ IsQuoteMark(CharAt(s, q))
       THEN q + 1 ELSE -1

\* whether ["'],\s*[\r\n]*\s*["']key["'] matches at p
KeyEndMatch(s, key, p) ==
    LET w == SkipSpace(s, p + 2)
    IN /\ IsQuoteMark(CharAt(s, p)) /\ CharAt(s, p + 1) = COMMA
       /\ IsQuoteMark(CharAt(s, w)) /\ CharAt(s, w + 1) = key
       /\ IsQuoteMark(CharAt(s, w + 2))

\* fuzzyExtractBetweenKeys without the search for the next key: the content
\* always ends at the last quote of the text
fuzzyExtractToLastQuote(fullText, keyStart, keyEnd) ==
    LET ContentEnd(contentStartIndex, lastQuote) ==
            IF lastQuote > contentStartIndex THEN lastQuote ELSE Len(fullText)
        Content(contentStartIndex) ==
            unescapeJsonString(
                Substring(fullText, contentStartIndex,
                          ContentEnd(contentStartIndex,
                                     LastIndexOf(fullText, DQUOTE))))
        From(startAt) ==
            IF startAt = -1 THEN JNull
            ELSE JStr(Content(KeyStartMatch(fullText, keyStart, startAt)))
    IN From(LeastOr({p \in 0..(Len(fullText) - 1) :
                        KeyStartMatch(fullText, keyStart, p) # -1}))

\* fuzzyExtractBetweenKeys(fullText, keyStart, keyEnd): a string, or null
\* (keyEnd is always given by parseRobustJson)
fuzzyExtractBetweenKeys(fullText, keyStart, keyEnd) ==
    LET ContentEnd(contentStartIndex, endAt, lastQuote) ==
            IF endAt # -1 THEN endAt
            ELSE IF lastQuote > contentStartIndex THEN lastQuote
            ELSE Len(fullText)
        Content(contentStartIndex) ==
            unescapeJsonString(
                Substring(fullText, contentStartIndex,
                          ContentEnd(contentStartIndex,
                                     LeastOr({p \in contentStartIndex..(Len(fullText) - 1) :
                                                 KeyEndMatch(fullText, keyEnd, p)}),
                                     LastIndexOf(fullText, DQUOTE))))
        From(startAt) ==
            IF startAt = -1 THEN JNull
            ELSE JStr(Content(KeyStartMatch(fullText, keyStart, startAt)))
    IN From(LeastOr({p \in 0..(Len(fullText) - 1) :
                        KeyStartMatch(fullText, keyStart, p) # -1}))

\* the index of the "{" of a match of (["']?)key\1\s*:\s*({) that starts at
\* p, else -1
KeyObjectMatch(s, key, p) ==
    LET quoted == /\ IsQuoteMark(CharAt(s, p)) /\ CharAt(s, p + 1) = key
                  /\ CharAt(s, p + 2) = CharAt(s, p)
        after == IF quoted THEN p + 3 ELSE p + 1
        c == SkipSpace(s, after)
        q == SkipSpace(s, c + 1)
    IN IF (quoted \/ CharAt(s, p) = key) /\ CharAt(s, c) = COLON /\ CharAt(s, q) = LBRACE
       THEN q ELSE -1

\* the number of c among the characters at indices a .. b of s
CountIn(s, c, a, b) == Cardinality({n \in a..b : CharAt(s, n) = c})

\* the value parsed, or the value the catch block leaves
ValueOr(r, caught) == IF r.ok THEN r.val ELSE caught

\* extractJsonObject(fullText, key): the parsed object, or null
extractJsonObject(fullText, key) ==
    LET Block(startAt, end) ==
            IF end = -1 THEN JNull
            ELSE ValueOr(JSONparse(Substring(fullText, startAt, end + 1)), JNull)
        \* end: the first index at which the braces counted from startAt balance
        From(startAt) ==
            Block(startAt,
                  LeastOr({n \in startAt..(Len(fullText) - 1) :
                              CountIn(fullText, LBRACE, startAt, n)
                                  = CountIn(fullText, RBRACE, startAt, n)}))
        At(at) == IF at = -1 THEN JNull ELSE From(KeyObjectMatch(fullText, key, at))
    IN At(LeastOr({p \in 0..(Len(fullText) - 1) :
                      KeyObjectMatch(fullText, key, p) # -1}))

\* whether /(async\s+function\s+NAME\s*\(|const\s+NAME\s*=s*async)/ matches
\* at p (the second alternative is written =\s* in a template literal, where
\* \s is the letter s)
FunctionStartMatch(s, funcName, p) ==
    LET f == SkipSpace(s, p + 1)
        n == SkipSpace(s, f + 1)
        e == SkipSpace(s, n + 1)
    IN \/ /\ CharAt(s, p) = "async" /\ f > p + 1 /\ CharAt(s, f) = "function"
          /\ n > f + 1 /\ CharAt(s, n) = funcName /\ CharAt(s, e) = LPAREN
       \/ /\ CharAt(s, p) = "const" /\ f > p + 1 /\ CharAt(s, f) = funcName
          /\ CharAt(s, n) = EQUALS /\ CharAt(s, n + 1) = "async"

\* extractFunctionFallback(fullText, funcName): a string, or null
extractFunctionFallback(fullText, funcName) ==
    LET Block(at, end) ==
            IF end = -1 THEN JNull ELSE JStr(Substring(fullText, at, end + 1))
        From(at) ==
            IF at = -1 THEN JNull
            ELSE Block(at,
                       LeastOr({n \in at..(Len(fullText) - 1) :
                                   /\ CountIn(fullText, LBRACE, at, n) > 0
                                   /\ CountIn(fullText, LBRACE, at, n)
                                          = CountIn(fullText, RBRACE, at, n)}))
    IN From(LeastOr({p \in 0..(Len(fullText) - 1) :
                        FunctionStartMatch(fullText, funcName, p)}))

\* the index behind a match of ["']?extractedData["']?\s*: that starts at p,
\* else -1
DataKeyMatch(s, p) ==
    LET k == IF IsQuoteMark(CharAt(s, p)) THEN p + 1 ELSE p
        a == IF IsQuoteMark(CharAt(s, k + 1)) THEN k + 2 ELSE k + 1
        c == SkipSpace(s, a)
    IN IF CharAt(s, k) = K_DATA /\ CharAt(s, c) = COLON THEN c + 1 ELSE -1

\* extractData without its default: null where nothing was extracted
extractDataOrNull(cur) ==
    LET Block(absoluteStart, end) ==
            IF end = -1 THEN JNull
            ELSE ValueOr(JSONparse(Substring(cur, absoluteStart, end + 1)), JNull)
        Balance(absoluteStart, openChar, closeChar) ==
            Block(absoluteStart,
                  LeastOr({n \in absoluteStart..(Len(cur) - 1) :
                              CountIn(cur, openChar, absoluteStart, n)
                                  = CountIn(cur, closeChar, absoluteStart, n)}))
        From(absoluteStart) ==
            IF absoluteStart = -1 THEN JNull
            ELSE Balance(absoluteStart, CharAt(cur, absoluteStart),
                         IF CharAt(cur, absoluteStart) = LBRACK THEN RBRACK ELSE RBRACE)
        After(afterKeyIndex) ==
            From(LeastOr({n \in afterKeyIndex..(Len(cur) - 1) :
                             CharAt(cur, n) \in {LBRACK, LBRACE}}))
        At(at) == IF at = -1 THEN JNull ELSE After(DataKeyMatch(cur, at))
    IN At(LeastOr({p \in 0..(Len(cur) - 1) : DataKeyMatch(cur, p) # -1}))

\* "Extract Data (Optional)" of parseRobustJson: the parsed value, else []
extractData(cur) ==
    LET Block(absoluteStart, end) ==
            IF end = -1 THEN JArr(<<>>)
            ELSE ValueOr(JSONparse(Substring(cur, absoluteStart, end + 1)), JArr(<<>>))
        Balance(absoluteStart, openChar, closeChar) ==
            Block(absoluteStart,
                  LeastOr({n \in absoluteStart..(Len(cur) - 1) :
                              CountIn(cur, openChar, absoluteStart, n)
                                  = CountIn(cur, closeChar, absoluteStart, n)}))
        From(absoluteStart) ==
            IF absoluteStart = -1 THEN JArr(<<>>)
            ELSE Balance(absoluteStart, CharAt(cur, absoluteStart),
                         IF CharAt(cur, absoluteStart) = LBRACK THEN RBRACK ELSE RBRACE)
        After(afterKeyIndex) ==
            From(LeastOr({n \in afterKeyIndex..(Len(cur) - 1) :
                             CharAt(cur, n) \in {LBRACK, LBRACE}}))
        At(at) == IF at = -1 THEN JArr(<<>>) ELSE After(DataKeyMatch(cur, at))
    IN At(LeastOr({p \in 0..(Len(cur) - 1) : DataKeyMatch(cur, p) # -1}))

\* ------------------------------------------------------------------------
\* parseRobustJson and the checks of analyzeDocument behind it

\* obj.key = val: an own property keeps its place, a new one comes last
SetProp(obj, key, val) ==
    IF \E n \in 1..Len(obj.v) : obj.v[n].key = <<key>>
    THEN JObj([n \in 1..Len(obj.v) |->
                  IF obj.v[n].key = <<key>> THEN [key |-> <<key>>, val |-> val]
                  ELSE obj.v[n]])
    ELSE JObj(Append(obj.v, [key |-> <<key>>, val |-> val]))

\* the texts the fuzzy path writes
PdfSentinel == <<SLASH, SLASH, SP, "PDF", SP, "failed">>
ExcelSentinel == <<SLASH, SLASH, SP, "Excel", SP, "failed">>
PdfImports ==
    <<SLASH, SLASH, SP, "added", LF, "import", SP, LBRACE, SP, "text", SP, RBRACE,
      SP, "from", SP, SQUOTE, "style", SQUOTE, SEMI, LF, LF>>
ExcelImports ==
    <<SLASH, SLASH, SP, "added", LF, "import", SP, "ExcelJS", SP, "from", SP,
      SQUOTE, "exceljs", SQUOTE, SEMI, LF, "import", SP, LBRACE, SP, "saveAs", SP,
      RBRACE, SP, "from", SP, SQUOTE, "saver", SQUOTE, SEMI, LF, LF>>

DefaultSummary ==
    JObj(<<[key |-> <<"fileType">>, val |-> JStr(<<"unknown">>)],
           [key |-> <<"detectedTables">>,
            val |-> JObj(<<[key |-> <<"count">>, val |-> JNum(0)],
                           [key |-> <<"dimensions">>, val |-> JArr(<<>>)]>>)],
           [key |-> <<"headers">>,
            val |-> JObj(<<[key |-> <<"title">>, val |-> JStr(<<"Generated">>)],
                           [key |-> <<"subtitle">>, val |-> JStr(<<>>)]>>)]>>)

\* StructuredAttempt with the second assignment copied from the first:
\* result.excelJSCode = fixEscapedNewlines(result.pdfMakeCode)
StructuredAttemptCopied(t) ==
    LET WithData(obj) ==
            IF Prop(obj, K_DATA).k \in {"undefined", "null"}
            THEN SetProp(obj, K_DATA, JArr(<<>>)) ELSE obj
        Fixed(obj, pdf, xls) ==
            IF pdf.ok /\ xls.ok
            THEN [returned |-> TRUE,
                  result |-> WithData(SetProp(SetProp(obj, K_PDF, pdf.val),
                                              K_XLS, xls.val))]
            ELSE [returned |-> FALSE, result |-> Undefined]
        Attempt(r) ==
            IF r.ok /\ r.val.k = "obj" /\ Truthy(Prop(r.val, K_PDF))
            THEN Fixed(r.val, fixEscapedNewlines(Prop(r.val, K_PDF)),
                       fixEscapedNewlines(Prop(r.val, K_PDF)))
            ELSE [returned |-> FALSE, result |-> Undefined]
    IN Attempt(JSONparse(t))

\* "1. Try Standard Parse first" and "2. Try Fixing Common JSON Issues": the
\* body of either try block on the text it parses.  [returned |-> FALSE] is
\* the fall through to the next strategy, by a SyntaxError, by the TypeError
\* of reading a property of null or of .replace on a value that is no
\* string, or by a pdfMakeCode that is not truthy.
StructuredAttempt(t) ==
    LET WithData(obj) ==
            IF Prop(obj, K_DATA).k \in {"undefined", "null"}
            THEN SetProp(obj, K_DATA, JArr(<<>>)) ELSE obj
        Fixed(obj, pdf, xls) ==
            IF pdf.ok /\ xls.ok
            THEN [returned |-> TRUE,
                  result |-> WithData(SetProp(SetProp(obj, K_PDF, pdf.val),
                                              K_XLS, xls.val))]
            ELSE [returned |-> FALSE, result |-> Undefined]
        Attempt(r) ==
            IF r.ok /\ r.val.k = "obj" /\ Truthy(Prop(r.val, K_PDF))
            THEN Fixed(r.val, fixEscapedNewlines(Prop(r.val, K_PDF)),
                       fixEscapedNewlines(Prop(r.val, K_XLS)))
            ELSE [returned |-> FALSE, result |-> Undefined]
    IN Attempt(JSONparse(t))

\* the code text of the fuzzy path: the key-bounded extraction, the function
\* search in the raw text when that is missing or short, the imports, the
\* newline repair; a string or null
FuzzyCode(cur, text, key, nextKey, funcName, imports) ==
    LET WithImports(code) ==
            IF ~Truthy(code) THEN code
            ELSE IF Includes(code.v, "import") THEN fixEscapedNewlines(code).val
            ELSE fixEscapedNewlines(JStr(imports \o code.v)).val
        OrFunction(byKey) ==
            IF ~Truthy(byKey) \/ TextLength(byKey.v) < MinCodeLength
            THEN WithImports(extractFunctionFallback(text, funcName))
            ELSE WithImports(byKey)
    IN OrFunction(fuzzyExtractBetweenKeys(cur, key, nextKey))

\* the fuzzy strategy without its validation: code or not, it returns
FuzzyAttemptUnvalidated(cur, text) ==
    LET OrSentinel(code, sentinel) == IF Truthy(code) THEN code ELSE JStr(sentinel)
        OrDefault(found) == IF Truthy(found) THEN found ELSE DefaultSummary
        Validation(pdfMakeCode, excelJSCode) ==
            [returned |-> TRUE,
             result |-> JObj(<<
                [key |-> <<K_SUMMARY>>,
                 val |-> OrDefault(extractJsonObject(cur, K_SUMMARY))],
                [key |-> <<K_PDF>>, val |-> OrSentinel(pdfMakeCode, PdfSentinel)],
                [key |-> <<K_XLS>>, val |-> OrSentinel(excelJSCode, ExcelSentinel)],
                [key |-> <<K_DATA>>, val |-> extractData(cur)]>>)]
    IN Validation(FuzzyCode(cur, text, K_PDF, K_XLS, "exportPDF", PdfImports),
                  FuzzyCode(cur, text, K_XLS, K_DATA, "exportToExcel", ExcelImports))

\* "3. Fuzzy Extraction Strategy": [returned |-> FALSE] is the final Error
FuzzyAttempt(cur, text) ==
    LET OrSentinel(code, sentinel) == IF Truthy(code) THEN code ELSE JStr(sentinel)
        OrDefault(found) == IF Truthy(found) THEN found ELSE DefaultSummary
        Validation(pdfMakeCode, excelJSCode) ==
            IF Truthy(pdfMakeCode) \/ Truthy(excelJSCode)
            THEN [returned |-> TRUE,
                  result |-> JObj(<<
                     [key |-> <<K_SUMMARY>>,
                      val |-> OrDefault(extractJsonObject(cur, K_SUMMARY))],
                     [key |-> <<K_PDF>>, val |-> OrSentinel(pdfMakeCode, PdfSentinel)],
                     [key |-> <<K_XLS>>, val |-> OrSentinel(excelJSCode, ExcelSentinel)],
                     [key |-> <<K_DATA>>, val |-> extractData(cur)]>>)]
            ELSE [returned |-> FALSE, result |-> Undefined]
    IN Validation(FuzzyCode(cur, text, K_PDF, K_XLS, "exportPDF", PdfImports),
                  FuzzyCode(cur, text, K_XLS, K_DATA, "exportToExcel", ExcelImports))

\* String(val) of a truthy value that is no array
StringOf(val) ==
    CASE val.k = "str" -> val.v
      [] val.k = "num" -> <<CHOOSE d \in Digits : DigitValue(d) = val.v>>
      [] val.k = "bool" -> <<"true">>
      [] OTHER -> <<LBRACK, "object", SP, "Object", RBRACK>>

RECURSIVE DecimalValue(_, _)
\* the number the digits of s write behind the value acc
DecimalValue(s, acc) ==
    IF s = <<>> THEN acc ELSE DecimalValue(Tail(s), 10 * acc + DigitValue(Head(s)))

\* Number(str) || 0: the number a trimmed run of digits writes, else 0
NumberOfText(s) ==
    IF \A n \in 1..Len(Trim(s)) : Trim(s)[n] \in Digits
    THEN DecimalValue(Trim(s), 0) ELSE 0

RECURSIVE NumberOrZero(_)
\* Number(val) || 0 of a value that is no number
NumberOrZero(val) ==
    CASE val.k = "str" -> NumberOfText(val.v)
      [] val.k = "bool" -> (IF val.v THEN 1 ELSE 0)
      [] val.k = "arr" ->
            (IF Len(val.v) # 1 THEN 0
             ELSE IF val.v[1].k = "num" THEN val.v[1].v
             ELSE IF val.v[1].k \in {"str", "arr"} THEN NumberOrZero(val.v[1])
             ELSE 0)
      [] OTHER -> 0

\* SanitizeParsed without the coercion of count
SanitizeParsedKeepCount(value) ==
    LET NoTables == JObj(<<[key |-> <<"count">>, val |-> JNum(0)],
                           [key |-> <<"dimensions">>, val |-> JArr(<<>>)]>>)
        WithCount(tables, count) ==
            tables
        WithDimensions(tables, dims) ==
            IF dims.k = "arr" THEN tables
            ELSE SetProp(tables, "dimensions",
                         IF Truthy(dims) THEN JArr(<<JStr(StringOf(dims))>>)
                         ELSE JArr(<<>>))
        Tables(tables) ==
            WithCount(WithDimensions(tables, Prop(tables, "dimensions")),
                      Prop(tables, "count"))
        Summary(summary, tables) ==
            IF Truthy(summary) /\ Truthy(tables)
            THEN SetProp(value, K_SUMMARY, SetProp(summary, "detectedTables", Tables(tables)))
            ELSE IF Truthy(summary)
            THEN SetProp(value, K_SUMMARY, SetProp(summary, "detectedTables", NoTables))
            ELSE value
        WithData(obj) ==
            IF Prop(obj, K_DATA).k \in {"undefined", "null"}
            THEN SetProp(obj, K_DATA, JArr(<<>>)) ELSE obj
    IN WithData(Summary(Prop(value, K_SUMMARY),
                        Prop(Prop(value, K_SUMMARY), "detectedTables")))

\* "Sanitize summary fields" and the final safety check of analyzeDocument
\* (detectedTables is an object whenever it is truthy in the texts checked)
SanitizeParsed(value) ==
    LET NoTables == JObj(<<[key |-> <<"count">>, val |-> JNum(0)],
                           [key |-> <<"dimensions">>, val |-> JArr(<<>>)]>>)
        WithCount(tables, count) ==
            IF count.k = "num" THEN tables
            ELSE SetProp(tables, "count", JNum(NumberOrZero(count)))
        WithDimensions(tables, dims) ==
            IF dims.k = "arr" THEN tables
            ELSE SetProp(tables, "dimensions",
                         IF Truthy(dims) THEN JArr(<<JStr(StringOf(dims))>>)
                         ELSE JArr(<<>>))
        Tables(tables) ==
            WithCount(WithDimensions(tables, Prop(tables, "dimensions")),
                      Prop(tables, "count"))
        Summary(summary, tables) ==
            IF Truthy(summary) /\ Truthy(tables)
            THEN SetProp(value, K_SUMMARY, SetProp(summary, "detectedTables", Tables(tables)))
            ELSE IF Truthy(summary)
            THEN SetProp(value, K_SUMMARY, SetProp(summary, "detectedTables", NoTables))
            ELSE value
        WithData(obj) ==
            IF Prop(obj, K_DATA).k \in {"undefined", "null"}
            THEN SetProp(obj, K_DATA, JArr(<<>>)) ELSE obj
    IN WithData(Summary(Prop(value, K_SUMMARY),
                        Prop(Prop(value, K_SUMMARY), "detectedTables")))

\* the "Relaxed check" of analyzeDocument on the value parseRobustJson
\* returned (its pdfMakeCode is a string): "ok", the Error thrown when both
\* code texts are comments, or the TypeError of .includes on an excelJSCode
\* that is no string
RelaxedCheck(value) ==
    LET Check(pdf, xls) ==
            IF Includes(pdf.v, "function") THEN "ok"
            ELSE IF xls.k # "str" THEN "TypeError"
            ELSE IF Includes(xls.v, "function") THEN "ok"
            ELSE IF StartsWithComment(pdf.v) /\ StartsWithComment(xls.v)
                 THEN "Incomplete JSON structure returned"
            ELSE "ok"
    IN Check(Prop(value, K_PDF), Prop(value, K_XLS))

\* ------------------------------------------------------------------------
\* The responses checked: documents of the schema the prompt asks for, every
\* member in one of several forms or left out, cut short at the end, with or
\* without a Markdown fence, with quoted or bare keys.

\* most symbols cut from the end of a document
MaxCut == 2

GT == ">"

Quoted(t) == <<DQUOTE>> \o t \o <<DQUOTE>>

\* async function NAME(){...}
FunctionCode(funcName) ==
    <<"async", SP, "function", SP, funcName, LPAREN, RPAREN, LBRACE, PAD, RBRACE>>

\* const NAME = async () => {...}
ArrowCode(funcName) ==
    <<"const", SP, funcName, SP, EQUALS, SP, "async", SP, LPAREN, RPAREN, SP,
      EQUALS, GT, SP, LBRACE, PAD, RBRACE>>

\* a function whose line breaks the model escaped twice, as the JSON text
\* holds it
EscapedCode(funcName) ==
    <<"async", SP, "function", SP, funcName, LPAREN, RPAREN, LBRACE,
      BSLASH, BSLASH, LETTER_N, PAD, SEMI, BSLASH, BSLASH, LETTER_N, RBRACE>>

\* a function with a raw line feed inside the JSON string
RawNewlineCode(funcName) ==
    <<"async", SP, "function", SP, funcName, LPAREN, RPAREN, LBRACE, LF, PAD, RBRACE>>

\* the forms of the value of a code member, <<>> for a member left out
CodeValues(funcName) ==
    {<<>>,
     Quoted(FunctionCode(funcName)), Quoted(ArrowCode(funcName)),
     Quoted(EscapedCode(funcName)), Quoted(RawNewlineCode(funcName)),
     Quoted(<<>>), Quoted(<<OTHER_CH>>), <<"null">>, <<"1">>}

SummaryValues ==
    {<<>>,
     <<"null">>,
     <<LBRACE, DQUOTE, "fileType", DQUOTE, COLON, DQUOTE, "pdf", DQUOTE, RBRACE>>,
     <<LBRACE, DQUOTE, "fileType", DQUOTE, COLON, DQUOTE, "pdf", DQUOTE, COMMA,
       DQUOTE, "detectedTables", DQUOTE, COLON, LBRACE,
       DQUOTE, "count", DQUOTE, COLON, DQUOTE, "3", DQUOTE, COMMA,
       DQUOTE, "dimensions", DQUOTE, COLON, DQUOTE, "a", DQUOTE, RBRACE, RBRACE>>,
     <<LBRACE, DQUOTE, "fileType", DQUOTE, COLON, DQUOTE, "pdf", DQUOTE, COMMA,
       DQUOTE, "detectedTables", DQUOTE, COLON, LBRACE,
       DQUOTE, "count", DQUOTE, COLON, DQUOTE, "a", DQUOTE, RBRACE, RBRACE>>,
     <<LBRACE, DQUOTE, "fileType", DQUOTE, COLON, DQUOTE, "pdf", DQUOTE, COMMA,
       DQUOTE, "detectedTables", DQUOTE, COLON, LBRACE,
       DQUOTE, "count", DQUOTE, COLON, "1", COMMA,
       DQUOTE, "dimensions", DQUOTE, COLON, "0", RBRACE, RBRACE>>,
     <<LBRACE, DQUOTE, "fileType", DQUOTE, COLON, DQUOTE, "a", RBRACE, DQUOTE, RBRACE>>}

DataValues ==
    {<<>>,
     <<"null">>,
     <<LBRACK, RBRACK>>,
     <<LBRACK, LBRACE, DQUOTE, "a", DQUOTE, COLON, "1", RBRACE, RBRACK>>}

\* key: value of a member, nothing for a member left out
Member(key, value, bare) ==
    IF value = <<>> THEN <<>>
    ELSE (IF bare THEN <<key>> ELSE Quoted(<<key>>)) \o <<COLON>> \o value

RECURSIVE JoinMembers(_)
\* the members that are not left out, with commas between them
JoinMembers(ms) ==
    IF ms = <<>> THEN <<>>
    ELSE IF Head(ms) = <<>> THEN JoinMembers(Tail(ms))
    ELSE IF JoinMembers(Tail(ms)) = <<>> THEN Head(ms)
    ELSE Head(ms) \o <<COMMA>> \o JoinMembers(Tail(ms))

Document(summary, pdf, xls, data, bare) ==
    <<LBRACE>>
        \o JoinMembers(<<Member(K_SUMMARY, summary, bare), Member(K_PDF, pdf, bare),
                         Member(K_XLS, xls, bare), Member(K_DATA, data, bare)>>)
        \o <<RBRACE>>

\* the text without its last k symbols
CutEnd(t, k) == SubSeq(t, 1, Len(t) - Min(k, Len(t)))

Fenced(t) == <<FENCE, "json", LF>> \o t \o <<LF, FENCE>>

Documents ==
    {Document(s, p, x, d, b) :
        s \in SummaryValues, p \in CodeValues("exportPDF"),
        x \in CodeValues("exportToExcel"), d \in DataValues, b \in BOOLEAN}

\* answers in prose: no JSON at all, or the code outside of any JSON
ProseResponses ==
    {<<>>,
     <<SP, LF>>,
     <<"text">>,
     <<"null">>,
     <<"1">>,
     <<"text", COMMA, SP, "a", COLON, SP, "text", SEMI, LF, "async", SP, "function">>,
     <<"text", SP>> \o FunctionCode("exportPDF"),
     <<"text", SP>> \o FunctionCode("exportToExcel") \o <<ZWSP>>,
     <<"const", SP, "exportPDF", EQUALS, "async", LPAREN, RPAREN, LBRACE, PAD, RBRACE>>}

Responses ==
    {CutEnd(t, k) : t \in Documents, k \in 0..MaxCut}
        \cup {Fenced(t) : t \in {Document(s, p, x, <<LBRACK, RBRACK>>, FALSE) :
                                    s \in SummaryValues,
                                    p \in CodeValues("exportPDF"),
                                    x \in {<<>>, Quoted(FunctionCode("exportToExcel"))}}}
        \cup ProseResponses

\* ------------------------------------------------------------------------
\* analyzeDocument from the response on (geminiService.ts:496-544), with
\* parseRobustJson in its three strategies

ScanIdle ==
    /\ source = <<>>
    /\ startIdx = 0
    /\ i = 0
    /\ openBraces = 0
    /\ foundStart = FALSE
    /\ inString = "null"
    /\ inComment = "null"
    /\ scanPc = "idle"
    /\ scanResult = NoResult

ParseInit ==
    /\ ScanIdle
    /\ CallIdle
    /\ AppIdle
    /\ responseText \in Responses
    /\ pPc = "received"
    /\ current = <<>>
    /\ route = "none"
    /\ parsed = Undefined
    /\ result = Undefined
    /\ pErr = ""

\* if (!responseText) ... throw new Error("Empty response from AI.")
\* the finishReason of the first candidate ("none": no candidate, or no
\* finishReason in it)
FinishReasons == {"none", "STOP", "MAX_TOKENS", "SAFETY"}

\* the Errors thrown for a response without text
EmptyResponse == "Empty response from AI."
GenerationStopped == "AI generation stopped."

PEmptyResponse ==
    /\ pPc = "received"
    /\ responseText = <<>>
    /\ pPc' = "Rejected"
    /\ \E finishReason \in FinishReasons :
          pErr' = IF finishReason \notin {"none", "STOP"}
                  THEN GenerationStopped ELSE EmptyResponse
    /\ UNCHANGED <<responseText, current, route, parsed, result>>
    /\ UNCHANGED scanVars
    /\ UNCHANGED callVars
    /\ UNCHANGED appVars

\* PDirectParse without the test for a response without text before it
PDirectParseAnyText ==
    /\ pPc = "received"
    /\ current' = cleanJson(responseText)
    /\ \E a \in {StructuredAttempt(current')} :
          IF a.returned
          THEN /\ parsed' = a.result
               /\ route' = "direct"
               /\ pPc' = "parsed"
          ELSE /\ pPc' = "quoteKeys"
               /\ UNCHANGED <<parsed, route>>
    /\ UNCHANGED <<responseText, result, pErr>>
    /\ UNCHANGED scanVars
    /\ UNCHANGED callVars
    /\ UNCHANGED appVars

\* parseRobustJson: cleanJson and "1. Try Standard Parse first"
PDirectParse ==
    /\ pPc = "received"
    /\ responseText # <<>>
    /\ current' = cleanJson(responseText)
    /\ \E a \in {StructuredAttempt(current')} :
          IF a.returned
          THEN /\ parsed' = a.result
               /\ route' = "direct"
               /\ pPc' = "parsed"
          ELSE /\ pPc' = "quoteKeys"
               /\ UNCHANGED <<parsed, route>>
    /\ UNCHANGED <<responseText, result, pErr>>
    /\ UNCHANGED scanVars
    /\ UNCHANGED callVars
    /\ UNCHANGED appVars

\* PQuoteKeysParse without its parse: straight on to the fuzzy strategy
PQuoteKeysSkipped ==
    /\ pPc = "quoteKeys"
    /\ pPc' = "fuzzy"
    /\ UNCHANGED <<responseText, current, route, parsed, result, pErr>>
    /\ UNCHANGED scanVars
    /\ UNCHANGED callVars
    /\ UNCHANGED appVars

\* parseRobustJson: "2. Try Fixing Common JSON Issues"
PQuoteKeysParse ==
    /\ pPc = "quoteKeys"
    /\ \E a \in {StructuredAttempt(QuoteBareKeys(current, 0))} :
          IF a.returned
          THEN /\ parsed' = a.result
               /\ route' = "quoted"
               /\ pPc' = "parsed"
          ELSE /\ pPc' = "fuzzy"
               /\ UNCHANGED <<parsed, route>>
    /\ UNCHANGED <<responseText, current, result, pErr>>
    /\ UNCHANGED scanVars
    /\ UNCHANGED callVars
    /\ UNCHANGED appVars

\* PFuzzy with a new call of the model where it throws its Error
PFuzzyRetry ==
    /\ pPc = "fuzzy"
    /\ \E a \in {FuzzyAttempt(current, responseText)} :
          IF a.returned
          THEN /\ parsed' = a.result
               /\ route' = "fuzzy"
               /\ pPc' = "parsed"
          ELSE /\ pPc' = "calling"
               /\ UNCHANGED <<parsed, route>>
    /\ UNCHANGED <<responseText, current, result, pErr>>
    /\ UNCHANGED scanVars
    /\ UNCHANGED callVars
    /\ UNCHANGED appVars

\* parseRobustJson: "3. Fuzzy Extraction Strategy (Most Robust)"
PFuzzy ==
    /\ pPc = "fuzzy"
    /\ \E a \in {FuzzyAttempt(current, responseText)} :
          IF a.returned
          THEN /\ parsed' = a.result
               /\ route' = "fuzzy"
               /\ pPc' = "parsed"
               /\ UNCHANGED pErr
          ELSE /\ pPc' = "Rejected"
               /\ pErr' = "Failed to parse AI response."
               /\ UNCHANGED <<parsed, route>>
    /\ UNCHANGED <<responseText, current, result>>
    /\ UNCHANGED scanVars
    /\ UNCHANGED callVars
    /\ UNCHANGED appVars

\* analyzeDocument behind parseRobustJson: the relaxed check, the summary
\* fields, the final safety check, return parsed
PValidate ==
    /\ pPc = "parsed"
    /\ \E check \in {RelaxedCheck(parsed)} :
          IF check = "ok"
          THEN /\ result' = SanitizeParsed(parsed)
               /\ pPc' = "Validated"
               /\ UNCHANGED pErr
          ELSE /\ pPc' = "Rejected"
               /\ pErr' = check
               /\ UNCHANGED result
    /\ UNCHANGED <<responseText, current, route, parsed>>
    /\ UNCHANGED scanVars
    /\ UNCHANGED callVars
    /\ UNCHANGED appVars

ParseNext == PEmptyResponse \/ PDirectParse \/ PQuoteKeysParse \/ PFuzzy \/ PValidate

SpecParse == ParseInit /\ [][ParseNext]_vars

\* ------------------------------------------------------------------------
\* The returned AnalysisResult (types.ts:22-27)

Validated == pPc = "Validated"

\* parseRobustJson has returned or thrown
ParseDone == pPc \in {"parsed", "Validated", "Rejected"} /\ responseText # <<>>

\* the text parses to a value of the schema: a summary object, two code
\* strings, extractedData an array or an object
SchemaValue(val) ==
    /\ val.k = "obj"
    /\ Prop(val, K_SUMMARY).k = "obj"
    /\ Prop(val, K_PDF).k = "str"
    /\ Prop(val, K_XLS).k = "str"
    /\ Prop(val, K_DATA).k \in {"arr", "obj"}

SchemaValid(t) == JSONparse(t).ok /\ SchemaValue(JSONparse(t).val)

\* the literal two-character sequence backslash, n occurs in the text
HasEscapedNewline(t) == \E p \in 0..(Len(t) - 2) : EscapedNewlineAt(t, p)

\* C6: in every AnalysisResult the pipeline returns, on every path,
\* pdfMakeCode and excelJSCode are both strings, never undefined or null.
C6_CodeFieldsAreStrings ==
    Validated => /\ Prop(result, K_PDF).k = "str"
                 /\ Prop(result, K_XLS).k = "str"

\* C7: every AnalysisResult the pipeline returns has a summary; when the
\* response held none, it is the default summary with fileType "unknown".
C7_SummaryPresent ==
    Validated =>
        /\ Prop(result, K_SUMMARY).k = "obj"
        /\ ~Includes(responseText, K_SUMMARY)
              => Prop(Prop(result, K_SUMMARY), "fileType") = JStr(<<"unknown">>)

OneCodeRecovered ==
    /\ route = "fuzzy"
    /\ (Prop(parsed, K_PDF) = JStr(PdfSentinel))
          # (Prop(parsed, K_XLS) = JStr(ExcelSentinel))

\* C10: when exactly one code field is recovered from a malformed response
\* the call does not fail: the result holds the recovered code in that field
\* and the sentinel comment in the other.
C10_SingleFieldRecovered ==
    OneCodeRecovered
        => /\ pPc # "Rejected"
           /\ Validated => /\ Prop(result, K_PDF) = Prop(parsed, K_PDF)
                           /\ Prop(result, K_XLS) = Prop(parsed, K_XLS)

\* ------------------------------------------------------------------------
\* The truncation repairer of the earlier revision (unnamed/part_004:84-142).
\* Its cleanJson and parseRobustJson carry the names of the current ones and
\* are told apart here by the suffix _part004.

\* most closing characters missing at the end of a truncated document
MaxMissing == 3

\* the index of the closing pair of a match of ""([^"]+)"" that starts at m,
\* else -1
DoubledQuotesMatch(s, m) ==
    LET Closing(q) == IF q > m + 2 /\ CharAt(s, q + 1) = DQUOTE THEN q ELSE -1
    IN IF CharAt(s, m) = DQUOTE /\ CharAt(s, m + 1) = DQUOTE
       THEN Closing(LeastOr({n \in (m + 2)..(Len(s) - 1) : CharAt(s, n) = DQUOTE}))
       ELSE -1

RECURSIVE FixDoubledQuotes(_, _)
\* cleaned.replace(/""([^"]+)""/g, '"$1"') from index p on
FixDoubledQuotes(s, p) ==
    LET At(m) ==
            IF m = -1 THEN SliceFrom(s, p)
            ELSE Substring(s, p, m) \o Substring(s, m + 1, DoubledQuotesMatch(s, m) + 1)
                     \o FixDoubledQuotes(s, DoubledQuotesMatch(s, m) + 2)
    IN At(LeastOr({m \in p..(Len(s) - 1) : DoubledQuotesMatch(s, m) # -1}))

cleanJson_part004(text) ==
    LET StripJsonFence(t) ==
            IF Len(t) >= 2 /\ t[1] = FENCE /\ t[2] = "json" THEN SliceFrom(t, 2) ELSE t
        StripStartFence(t) == IF Len(t) >= 1 /\ t[1] = FENCE THEN SliceFrom(t, 1) ELSE t
        StripEndFence(t) ==
            IF Len(t) >= 1 /\ t[Len(t)] = FENCE THEN SubSeq(t, 1, Len(t) - 1) ELSE t
        CutToBraces(t, firstBrace, lastBrace) ==
            IF firstBrace # -1 /\ lastBrace # -1
            THEN Substring(t, firstBrace, lastBrace + 1) ELSE t
        Cut(t) == CutToBraces(t, IndexOf(t, LBRACE), LastIndexOf(t, RBRACE))
    IN Trim(FixDoubledQuotes(
                Cut(StripEndFence(StripStartFence(StripJsonFence(Trim(text))))), 0))

\* the number of c in the text: (repaired.match(/c/g) || []).length
CountOf(s, c) == Cardinality({n \in 1..Len(s) : s[n] = c})

\* c.repeat(n)
Repeat(c, n) == [k \in 1..n |-> c]

\* "Attempt 2: Truncation Repair": the closers appended to the cleaned text
RepairTruncation(repaired) ==
    LET Close(t, c, open, close) ==
            IF open > close THEN t \o Repeat(c, open - close) ELSE t
        Squares(t) == Close(t, RBRACK, CountOf(repaired, LBRACK), CountOf(repaired, RBRACK))
    IN Squares(Close(repaired, RBRACE, CountOf(repaired, LBRACE),
                     CountOf(repaired, RBRACE)))

\* the valid documents of the schema that are cut short
SchemaDocuments ==
    {Document(s, Quoted(p), Quoted(x), d, FALSE) :
        s \in {t \in SummaryValues : t # <<>> /\ t[1] = LBRACE},
        p \in {FunctionCode("exportPDF"), ArrowCode("exportPDF"), <<OTHER_CH>>},
        x \in {FunctionCode("exportToExcel"), EscapedCode("exportToExcel"),
               <<OTHER_CH>>, <<>>},
        d \in {<<LBRACK, RBRACK>>,
               <<LBRACK, LBRACE, DQUOTE, "a", DQUOTE, COLON, "1", RBRACE, RBRACK>>,
               <<LBRACE, DQUOTE, "a", DQUOTE, COLON, LBRACE, DQUOTE, "a", DQUOTE,
                 COLON, "1", RBRACE, RBRACE>>}}

\* the last k symbols of the text are closing structural characters
EndsInClosers(t, k) ==
    k <= Len(t) /\ \A n \in (Len(t) - k + 1)..Len(t) : t[n] \in {RBRACE, RBRACK}

RepairInit ==
    /\ ScanIdle
    /\ CallIdle
    /\ AppIdle
    /\ \E t \in SchemaDocuments, k \in 0..MaxMissing :
          /\ EndsInClosers(t, k)
          /\ responseText = CutEnd(t, k)
    /\ pPc = "repairer"
    /\ current = <<>>
    /\ route = "none"
    /\ parsed = Undefined
    /\ result = Undefined
    /\ pErr = ""

\* parseRobustJson of part_004, "Attempt 1: Clean and Parse"
RCleanParse ==
    /\ pPc = "repairer"
    /\ current' = cleanJson_part004(responseText)
    /\ \E r \in {JSONparse(current')} :
          IF r.ok
          THEN /\ parsed' = r.val
               /\ route' = "direct"
               /\ pPc' = "returned"
          ELSE /\ pPc' = "repair"
               /\ UNCHANGED <<parsed, route>>
    /\ UNCHANGED <<responseText, result, pErr>>
    /\ UNCHANGED scanVars
    /\ UNCHANGED callVars
    /\ UNCHANGED appVars

\* parseRobustJson of part_004, "Attempt 2: Truncation Repair"
RRepairParse ==
    /\ pPc = "repair"
    /\ current' = RepairTruncation(cleanJson_part004(responseText))
    /\ \E r \in {JSONparse(current')} :
          IF r.ok
          THEN /\ parsed' = r.val
               /\ route' = "repaired"
               /\ pPc' = "returned"
               /\ UNCHANGED pErr
          ELSE /\ pPc' = "failed"
               /\ pErr' = "Failed to parse AI response."
               /\ UNCHANGED <<parsed, route>>
    /\ UNCHANGED <<responseText, result>>
    /\ UNCHANGED scanVars
    /\ UNCHANGED callVars
    /\ UNCHANGED appVars

RepairNext == RCleanParse \/ RRepairParse

SpecRepair == RepairInit /\ [][RepairNext]_vars

\* C9: for every text of the schema that lacks exactly k closing characters
\* at its end, k from 1 to 3, the text with the counted closers appended
\* parses.
C9_TruncationRepaired == pPc # "failed"

\* ------------------------------------------------------------------------
\* Outcomes of the pipeline (geminiService.ts:204-325, 496-556)

\* the Error parseRobustJson ends with when every strategy failed
ParseFailure == "Failed to parse AI response."

Rejected == pPc = "Rejected"

\* C11: only total extraction failure is fatal: whenever a summary object
\* can be recovered from the response, the pipeline returns an AnalysisResult
\* (with sentinel code where needed) and does not reject.
C11_SummaryRecoveredReturns ==
    (Rejected /\ responseText # <<>>)
        => ~Truthy(extractJsonObject(current, K_SUMMARY))

\* a response entirely in prose: it is not empty and holds no brace, no
\* bracket, no quote, no key of the schema and no start of either function
ProseOnly(t) ==
    /\ t # <<>>
    /\ \A n \in 1..Len(t) :
          t[n] \notin {LBRACE, RBRACE, LBRACK, RBRACK, DQUOTE, SQUOTE,
                       K_SUMMARY, K_PDF, K_XLS, K_DATA}
    /\ \A p \in 0..(Len(t) - 1) :
          /\ ~FunctionStartMatch(t, "exportPDF", p)
          /\ ~FunctionStartMatch(t, "exportToExcel", p)

\* C12: a response entirely in prose never gets past parseRobustJson: no
\* strategy returns a value for it, and the call ends Rejected with the one
\* Error of the failed parse and with no other fault.
C12_ProseRejected ==
    ProseOnly(responseText)
        => /\ pPc \in {"received", "quoteKeys", "fuzzy", "Rejected"}
           /\ route = "none"
           /\ Rejected => pErr = ParseFailure

\* a prose response of several words was rejected by the fuzzy strategy
C12_Witness ==
    /\ Rejected /\ pErr = ParseFailure
    /\ ProseOnly(responseText) /\ Len(responseText) > 2

\* ------------------------------------------------------------------------
\* Termination.  The scanner is a synchronous loop on one thread: a call
\* that has a next iteration runs it, which is the weak fairness of its step
\* relation.  parseRobustJson is a fixed chain of stages, and so a bound on
\* the stages left is all its termination needs.

\* longest text the scanner is given where its termination is checked
MaxLenTerminate == 4

TerminateInit == (ScanInit /\ Len(source) <= MaxLenTerminate) \/ ParseInit

TerminateNext == ScanNext \/ ParseNext

SpecTerminate ==
    /\ TerminateInit
    /\ [][TerminateNext]_vars
    /\ WF_vars(ScanNext)

\* the stages a call of the pipeline has left at most
StagesLeft ==
    CASE pPc = "received" -> 4
      [] pPc = "quoteKeys" -> 3
      [] pPc = "fuzzy" -> 2
      [] pPc = "parsed" -> 1
      [] OTHER -> 0

C13_WitnessPipeline == Validated /\ route = "fuzzy"

\* ------------------------------------------------------------------------
\* cleanJson applied to its own output (geminiService.ts:61-72 and
\* unnamed/part_004:84-106)

\* longest text given to cleanJson
MaxLenSanitize == 4

AlphaSanitize == {FENCE, "json", ZWSP, SP, LBRACE, RBRACE, DQUOTE, OTHER_CH}

SanitizeInit ==
    /\ ScanIdle
    /\ CallIdle
    /\ AppIdle
    /\ responseText \in StringsOver(AlphaSanitize, MaxLenSanitize)
    /\ pPc \in {"sanitize", "sanitize_part004"}
    /\ current = <<>>
    /\ route = "none"
    /\ parsed = Undefined
    /\ result = Undefined
    /\ pErr = ""

\* const current = cleanJson(text)
SanitizeOnce ==
    /\ pPc = "sanitize"
    /\ current' = cleanJson(responseText)
    /\ pPc' = "sanitized"
    /\ UNCHANGED <<responseText, route, parsed, result, pErr>>
    /\ UNCHANGED scanVars
    /\ UNCHANGED callVars
    /\ UNCHANGED appVars

\* the cleaned text is given to cleanJson as its text
SanitizeAgain ==
    /\ pPc = "sanitized"
    /\ responseText' = current
    /\ current' = cleanJson(current)
    /\ pPc' = "resanitized"
    /\ UNCHANGED <<route, parsed, result, pErr>>
    /\ UNCHANGED scanVars
    /\ UNCHANGED callVars
    /\ UNCHANGED appVars

\* the same two steps with the cleanJson of the earlier revision
SanitizeOnce_part004 ==
    /\ pPc = "sanitize_part004"
    /\ current' = cleanJson_part004(responseText)
    /\ pPc' = "sanitized_part004"
    /\ UNCHANGED <<responseText, route, parsed, result, pErr>>
    /\ UNCHANGED scanVars
    /\ UNCHANGED callVars
    /\ UNCHANGED appVars

SanitizeAgain_part004 ==
    /\ pPc = "sanitized_part004"
    /\ responseText' = current
    /\ current' = cleanJson_part004(current)
    /\ pPc' = "resanitized_part004"
    /\ UNCHANGED <<route, parsed, result, pErr>>
    /\ UNCHANGED scanVars
    /\ UNCHANGED callVars
    /\ UNCHANGED appVars

SanitizeNext ==
    SanitizeOnce \/ SanitizeAgain \/ SanitizeOnce_part004 \/ SanitizeAgain_part004

SpecSanitize == SanitizeInit /\ [][SanitizeNext]_vars

\* C14: cleanJson is idempotent: cleaning a cleaned text gives it back
\* unchanged, for every text, fences repeated or next to zero-width
\* characters included.
C14_SanitizeIdempotent ==
    pPc \in {"resanitized", "resanitized_part004"} => current = responseText

\* ------------------------------------------------------------------------
\* fuzzyExtractBetweenKeys on texts built around a known field content
\* (geminiService.ts:103-140, called at lines 243-244)

\* longest field content
MaxLenContent == 3

AlphaContent == {OTHER_CH, SP, LF, COMMA, COLON, DQUOTE, BSLASH, LETTER_N}

\* a text with the field key, its content between quotes, a comma, the
\* white space ws and the quoted next key
FieldText(prefix, key, content, ws, nextKey) ==
    prefix \o Quoted(<<key>>) \o <<COLON, SP>> \o Quoted(content) \o <<COMMA>>
        \o ws \o Quoted(<<nextKey>>) \o <<COLON, SP>> \o Quoted(<<OTHER_CH>>)
        \o <<RBRACE>>

ExtractInit ==
    /\ ScanIdle
    /\ CallIdle
    /\ AppIdle
    /\ current \in StringsOver(AlphaContent, MaxLenContent)
    /\ pPc \in {"extractPdf", "extractExcel"}
    /\ \E prefix \in {<<LBRACE>>,
                      <<LBRACE>> \o Quoted(<<K_SUMMARY>>) \o <<COLON>>
                          \o Quoted(<<OTHER_CH>>) \o <<COMMA, SP>>},
          ws \in {<<>>, <<SP>>, <<LF, SP, SP>>, <<CR, LF, TAB>>} :
          responseText =
              IF pPc = "extractPdf"
              THEN FieldText(prefix, K_PDF, current, ws, K_XLS)
              ELSE FieldText(prefix, K_XLS, current, ws, K_DATA)
    /\ route = "none"
    /\ parsed = Undefined
    /\ result = Undefined
    /\ pErr = ""

\* let pdfMakeCode = fuzzyExtractBetweenKeys(current, "pdfMakeCode", "excelJSCode")
ExtractPdf ==
    /\ pPc = "extractPdf"
    /\ parsed' = fuzzyExtractBetweenKeys(responseText, K_PDF, K_XLS)
    /\ pPc' = "extracted"
    /\ UNCHANGED <<responseText, current, route, result, pErr>>
    /\ UNCHANGED scanVars
    /\ UNCHANGED callVars
    /\ UNCHANGED appVars

\* let excelJSCode = fuzzyExtractBetweenKeys(current, "excelJSCode", "extractedData")
ExtractExcel ==
    /\ pPc = "extractExcel"
    /\ parsed' = fuzzyExtractBetweenKeys(responseText, K_XLS, K_DATA)
    /\ pPc' = "extracted"
    /\ UNCHANGED <<responseText, current, route, result, pErr>>
    /\ UNCHANGED scanVars
    /\ UNCHANGED callVars
    /\ UNCHANGED appVars

ExtractNext == ExtractPdf \/ ExtractExcel

SpecExtract == ExtractInit /\ [][ExtractNext]_vars

TablesOf(val) == Prop(Prop(val, K_SUMMARY), "detectedTables")

IsScalar(val) == val.k \in {"str", "num", "bool"}

\* C16 as claimed: in every returned result whose summary came with
\* detectedTables, count is a number (that of a numeric string, 0 for what
\* cannot be coerced) and dimensions is an array: every scalar wrapped as the
\* one element that is its string form, an absent value made the empty array.
C16_TablesNormalised ==
    (Validated /\ Truthy(TablesOf(parsed)))
        => /\ Prop(TablesOf(result), "count").k = "num"
           /\ Prop(TablesOf(parsed), "count") = JStr(<<"3">>)
                 => Prop(TablesOf(result), "count") = JNum(3)
           /\ Prop(TablesOf(parsed), "count") \in {JStr(<<"a">>), Undefined}
                 => Prop(TablesOf(result), "count") = JNum(0)
           /\ Prop(TablesOf(result), "dimensions").k = "arr"
           /\ IsScalar(Prop(TablesOf(parsed), "dimensions"))
                 => Len(Prop(TablesOf(result), "dimensions").v) = 1
           /\ Prop(TablesOf(parsed), "dimensions") = JStr(<<"a">>)
                 => Prop(TablesOf(result), "dimensions") = JArr(<<JStr(<<"a">>)>>)
           /\ Prop(TablesOf(parsed), "dimensions") = Undefined
                 => Prop(TablesOf(result), "dimensions") = JArr(<<>>)

\* C16 as amended: in every returned result whose summary came with an
\* object detectedTables, count is a number (that of a numeric string, 0 for what
\* cannot be coerced) and dimensions is an array: a scalar that is truthy
\* wrapped as the one element that is its string form, and a scalar that is
\* falsy (0, the empty string, false) made the empty array like an absent
\* value.
C16_TablesNormalisedTruthy ==
    (Validated /\ TablesOf(parsed).k = "obj")
        => /\ Prop(TablesOf(result), "count").k = "num"
           /\ Prop(TablesOf(parsed), "count") = JStr(<<"3">>)
                 => Prop(TablesOf(result), "count") = JNum(3)
           /\ Prop(TablesOf(parsed), "count") \in {JStr(<<"a">>), Undefined}
                 => Prop(TablesOf(result), "count") = JNum(0)
           /\ Prop(TablesOf(result), "dimensions").k = "arr"
           /\ (IsScalar(Prop(TablesOf(parsed), "dimensions"))
                  /\ Truthy(Prop(TablesOf(parsed), "dimensions")))
                 => Len(Prop(TablesOf(result), "dimensions").v) = 1
           /\ Prop(TablesOf(parsed), "dimensions") = JStr(<<"a">>)
                 => Prop(TablesOf(result), "dimensions") = JArr(<<JStr(<<"a">>)>>)
           /\ ~Truthy(Prop(TablesOf(parsed), "dimensions"))
                 => Prop(TablesOf(result), "dimensions") = JArr(<<>>)

\* a result was returned whose count came as "3" and whose dimensions as "a"
C16_Witness ==
    /\ Validated
    /\ Prop(TablesOf(parsed), "count") = JStr(<<"3">>)
    /\ Prop(TablesOf(result), "count") = JNum(3)
    /\ Prop(TablesOf(result), "dimensions") = JArr(<<JStr(<<"a">>)>>)

\* the value is there: neither undefined nor null
Present(val) == val.k \notin {"undefined", "null"}

\* C17: extractedData is present in every value parseRobustJson returns and
\* in every result the call returns, never undefined or null; where the
\* response held no extractedData, or none that could be extracted and
\* parsed, it is the empty array.
C17_DataPresent ==
    /\ pPc \in {"parsed", "Validated"} => Present(Prop(parsed, K_DATA))
    /\ Validated =>
          /\ Present(Prop(result, K_DATA))
          /\ ~Includes(responseText, K_DATA) => Prop(result, K_DATA) = JArr(<<>>)
          /\ route = "fuzzy" =>
                \/ Prop(result, K_DATA) = JArr(<<>>)
                \/ /\ Prop(result, K_DATA).k \in {"arr", "obj"}
                   /\ Prop(result, K_DATA).v # <<>>

\* a result came back from the fuzzy strategy, which found no extractedData
C17_Witness ==
    /\ Validated /\ route = "fuzzy"
    /\ ~Includes(responseText, K_DATA)
    /\ Prop(result, K_DATA) = JArr(<<>>)

\* the diagnostics of a response without text
EmptyDiagnostics == {EmptyResponse, GenerationStopped}

\* C18: a response without text is rejected at once, before cleanJson or any
\* parsing strategy has run, with a diagnostic of its own; no response gets
\* that diagnostic once parsing was attempted, and no response without text
\* gets the diagnostic of the failed parse.
C18_EmptyRejectedFirst ==
    /\ responseText = <<>>
          => /\ pPc \in {"received", "Rejected"}
             /\ current = <<>> /\ route = "none" /\ parsed = Undefined
             /\ Rejected => pErr \in EmptyDiagnostics
    /\ pErr \in EmptyDiagnostics => (Rejected /\ responseText = <<>>)
    /\ ParseFailure \notin EmptyDiagnostics

\* the response without text was rejected
C18_Witness == Rejected /\ responseText = <<>> /\ pErr = EmptyResponse

\* ------------------------------------------------------------------------
\* analyzeDocument from the call of the model on (geminiService.ts:457-556)

maxRetries == 3

\* the messages of the errors generateContent throws: an internal error
\* (its message holds "500" or "INTERNAL", or its status is 500), any other
InternalError == "500 INTERNAL"
OtherError == "API error"

\* the texts generateContent returns
CallResponses ==
    ProseResponses
        \cup {Fenced(Document(s, p, <<>>, <<LBRACK, RBRACK>>, FALSE)) :
                 s \in SummaryValues, p \in CodeValues("exportPDF")}

CallInit ==
    /\ ScanIdle
    /\ CallIdle
    /\ AppIdle
    /\ responseText = <<>>
    /\ pPc = "calling"
    /\ current = <<>>
    /\ route = "none"
    /\ parsed = Undefined
    /\ result = Undefined
    /\ pErr = ""

\* result = await ai.models.generateContent(...); break
GenerateReturns ==
    /\ pPc = "calling"
    /\ retryCount < maxRetries
    /\ calls' = calls + 1
    /\ responseText' \in CallResponses
    /\ pPc' = "received"
    /\ UNCHANGED <<retryCount, current, route, parsed, result, pErr>>
    /\ UNCHANGED scanVars
    /\ UNCHANGED appVars

\* generateContent throws an internal error: another attempt after the
\* delay, or the error itself at the last attempt
GenerateInternalError ==
    /\ pPc = "calling"
    /\ retryCount < maxRetries
    /\ calls' = calls + 1
    /\ retryCount' = retryCount + 1
    /\ IF retryCount' >= maxRetries
       THEN pPc' = "Rejected" /\ pErr' = InternalError
       ELSE UNCHANGED <<pPc, pErr>>
    /\ UNCHANGED <<responseText, current, route, parsed, result>>
    /\ UNCHANGED scanVars
    /\ UNCHANGED appVars

\* GenerateOtherError with another attempt in place of throw error
GenerateOtherErrorRetried ==
    /\ pPc = "calling"
    /\ retryCount < maxRetries
    /\ calls' = calls + 1
    /\ UNCHANGED <<retryCount, responseText, pPc, current, route, parsed, result, pErr>>
    /\ UNCHANGED scanVars
    /\ UNCHANGED appVars

\* generateContent throws any other error: throw error
GenerateOtherError ==
    /\ pPc = "calling"
    /\ retryCount < maxRetries
    /\ calls' = calls + 1
    /\ pPc' = "Rejected"
    /\ pErr' = OtherError
    /\ UNCHANGED <<retryCount, responseText, current, route, parsed, result>>
    /\ UNCHANGED scanVars
    /\ UNCHANGED appVars

CallNext ==
    \/ GenerateReturns \/ GenerateInternalError \/ GenerateOtherError
    \/ ParseNext

SpecCall == CallInit /\ [][CallNext]_vars

\* C19: once generateContent has returned a response, it is not called
\* again in that call of analyzeDocument, whatever the parsing stages come
\* to: behind the loop the count of calls stays and the loop is not entered
\* again.
C19_NoCallAfterResponse ==
    [][pPc # "calling" => (calls' = calls /\ pPc' # "calling")]_vars

\* the second call returned a response and its parse failed
C19_Witness ==
    /\ Rejected /\ pErr = ParseFailure
    /\ calls = 2 /\ retryCount = 1

\* ------------------------------------------------------------------------
\* The order of the strategies of parseRobustJson (geminiService.ts:204-244)

\* JSON.parse takes the text
Parses(t) == JSONparse(t).ok

\* JSON.parse takes the text and gives an object whose pdfMakeCode is a
\* string that is not empty and whose excelJSCode is a string or falsy
ParsesWithCode(t) ==
    /\ JSONparse(t).ok
    /\ Prop(JSONparse(t).val, K_PDF).k = "str"
    /\ Prop(JSONparse(t).val, K_PDF).v # <<>>
    /\ \/ Prop(JSONparse(t).val, K_XLS).k = "str"
       \/ ~Truthy(Prop(JSONparse(t).val, K_XLS))

\* the fuzzy strategy was attempted, or is about to be
FuzzyAttempted == pPc = "fuzzy" \/ route = "fuzzy" \/ pErr = ParseFailure

\* C20 as claimed: whenever the cleaned text parses, as it is or after key
\* quoting, the value goes on to validation and the fuzzy strategy is not
\* attempted; the fuzzy strategy is attempted only after the structured parse
\* failed.
C20_StructuredSkipsFuzzy ==
    (pPc # "received" /\ (Parses(current) \/ Parses(QuoteBareKeys(current, 0))))
        => ~FuzzyAttempted

\* C20 as amended: whenever the cleaned text parses, as it is or after key
\* quoting, to an object with a pdfMakeCode string that is not empty (and an
\* excelJSCode that is a string or falsy), parseRobustJson returns that value
\* to the checks behind it and the fuzzy strategy is not attempted; the fuzzy
\* strategy is attempted only after both structured attempts gave no such
\* value.
C20_CodeSkipsFuzzy ==
    (pPc # "received"
        /\ (ParsesWithCode(current) \/ ParsesWithCode(QuoteBareKeys(current, 0))))
        => /\ ~FuzzyAttempted
           /\ pPc # "quoteKeys" => (pPc \in {"parsed", "Validated", "Rejected"}
                                       /\ route \in {"direct", "quoted"})

\* a text with bare keys was parsed after key quoting and went on to the
\* checks
C20_Witness ==
    /\ pPc = "parsed" /\ route = "quoted"
    /\ ~Parses(current) /\ ParsesWithCode(QuoteBareKeys(current, 0))

\* the errors of the call of the model
CallErrors == {InternalError, OtherError}

\* C21: generateContent is called at most maxRetries times in one call of
\* analyzeDocument; a further call is made only from inside the loop and
\* only when every call before it failed with an internal error; any other
\* error, and the internal error of the last call allowed, is raised with no
\* call behind it.
C21_AtMostThreeCalls ==
    /\ [](calls <= maxRetries)
    /\ [][calls' # calls
             => (calls' = calls + 1 /\ pPc = "calling" /\ retryCount = calls)]_vars
    /\ [](pErr \in CallErrors => Rejected)
    /\ [](pErr = InternalError => (calls = maxRetries /\ retryCount = maxRetries))
    /\ [][(pErr \in CallErrors) => (calls' = calls /\ pErr' = pErr)]_vars

\* the internal error of the third call was raised
C21_Witness ==
    /\ Rejected /\ pErr = InternalError
    /\ calls = maxRetries

\* ------------------------------------------------------------------------
\* fuzzyExtractBetweenKeys on a field that no next key follows
\* (geminiService.ts:125-139)

AlphaRest == {OTHER_CH, DQUOTE, RBRACE, COMMA, BSLASH, LETTER_N}

\* current is the text behind the opening quote of the field, to the end
ExtractLastInit ==
    /\ ScanIdle
    /\ CallIdle
    /\ AppIdle
    /\ current \in StringsOver(AlphaRest, MaxLenContent)
    /\ pPc = "extractLast"
    /\ \E prefix \in {<<LBRACE>>,
                      <<LBRACE>> \o Quoted(<<K_PDF>>) \o <<COLON>>
                          \o Quoted(<<OTHER_CH>>) \o <<COMMA, SP>>} :
          responseText = prefix \o Quoted(<<K_XLS>>) \o <<COLON, SP, DQUOTE>> \o current
    /\ route = "none"
    /\ parsed = Undefined
    /\ result = Undefined
    /\ pErr = ""

\* fuzzyExtractBetweenKeys(current, "excelJSCode", "extractedData") on a text
\* without extractedData
ExtractLast ==
    /\ pPc = "extractLast"
    /\ parsed' = fuzzyExtractBetweenKeys(responseText, K_XLS, K_DATA)
    /\ pPc' = "extractedLast"
    /\ UNCHANGED <<responseText, current, route, result, pErr>>
    /\ UNCHANGED scanVars
    /\ UNCHANGED callVars
    /\ UNCHANGED appVars

ExtractLastNext == ExtractLast

SpecExtractLast == ExtractLastInit /\ [][ExtractLastNext]_vars

\* the text up to its last double quote, the whole text when it has none
UpToLastQuote(t) ==
    IF LastIndexOf(t, DQUOTE) = -1 THEN t
    ELSE Substring(t, 0, LastIndexOf(t, DQUOTE))

\* C22: where the start marker is found and no next-key marker follows, the
\* span ends at the last quote of the text behind the content start, and is
\* the rest of the text only if that text holds no quote; the closing quote
\* of the value is never in the result.
C22_LastFieldToLastQuote ==
    pPc = "extractedLast"
        => parsed = JStr(unescapeJsonString(UpToLastQuote(current)))

\* ------------------------------------------------------------------------
\* The summary of the fuzzy strategy (geminiService.ts:142-170, 266-271)

\* sub occurs in t as a run of neighbouring characters
Occurs(t, sub) ==
    \E p \in 0..(Len(t) - Len(sub)) : Substring(t, p, p + Len(sub)) = sub

\* the summary objects the responses are built from
SummaryObjects == {s \in SummaryValues : s # <<>> /\ s[1] = LBRACE}

\* the cleaned text holds the summary object s, whole, behind its key
HoldsSummary(t, s) ==
    \/ Occurs(t, Quoted(<<K_SUMMARY>>) \o <<COLON>> \o s)
    \/ Occurs(t, <<K_SUMMARY, COLON>> \o s)

\* C23: the fuzzy strategy recovers a well-formed summary object whole, a
\* brace inside one of its strings or not, and does not put the default
\* summary in its place.
C23_SummaryIntact ==
    \A s \in SummaryObjects :
        (route = "fuzzy" /\ HoldsSummary(current, s))
            => Prop(parsed, K_SUMMARY) = JSONparse(s).val

\* ------------------------------------------------------------------------
\* fixEscapedNewlines on code texts (geminiService.ts:84-97)

\* longest code text given to fixEscapedNewlines
MaxLenCode == 5

\* the characters fixEscapedNewlines puts a line break behind
BreakPoints == {SEMI, LBRACE, RBRACE, COMMA, LBRACK, RPAREN}

AlphaCode == BreakPoints \cup {BSLASH, LETTER_N, SP, SLASH}

FixInit ==
    /\ ScanIdle
    /\ CallIdle
    /\ AppIdle
    /\ responseText = <<>>
    /\ current \in StringsOver(AlphaCode, MaxLenCode)
    /\ pPc = "fix"
    /\ route = "none"
    /\ parsed = Undefined
    /\ result = Undefined
    /\ pErr = ""

\* result.pdfMakeCode = fixEscapedNewlines(result.pdfMakeCode)
FixNewlines ==
    /\ pPc = "fix"
    /\ parsed' = fixEscapedNewlines(JStr(current)).val
    /\ pPc' = "fixed"
    /\ UNCHANGED <<responseText, current, route, result, pErr>>
    /\ UNCHANGED scanVars
    /\ UNCHANGED callVars
    /\ UNCHANGED appVars

FixNext == FixNewlines

SpecFix == FixInit /\ [][FixNext]_vars

\* a literal backslash, n stands directly behind one of the break points of
\* the text, or with white space only between them
EscapedNewlineAtBreak(t) ==
    \E p \in 0..(Len(t) - 1) :
        CharAt(t, p) \in BreakPoints /\ EscapedNewlineAt(t, SkipSpace(t, p + 1))

\* C24: the text fixEscapedNewlines returns holds no literal backslash, n
\* directly behind, or with white space only behind, a ; { } , [ or ).
C24_BreaksRestored ==
    pPc = "fixed" => ~EscapedNewlineAtBreak(parsed.v)

\* ------------------------------------------------------------------------
\* extractBalancedBlock: string mode and comment mode

\* C25: in every state of the scanner, inString and inComment are not both
\* set, whatever prefix of whatever text has been processed.
C25_StringXorComment ==
    ~(inString # "null" /\ inComment # "null")

\* a quote has just been read inside a comment, or a slash inside a string
C25_Witness ==
    /\ scanPc = "loop"
    /\ i > startIdx
    /\ i <= Len(source)
    /\ \/ inComment # "null" /\ IsQuote(CharAt(source, i - 1))
       \/ /\ inString # "null"
          /\ i >= startIdx + 2
          /\ CharAt(source, i - 1) \in {SLASH, STAR}
          /\ CharAt(source, i - 2) = SLASH

\* ------------------------------------------------------------------------
\* unescapeJsonString on escaped texts (geminiService.ts:74-82)

\* longest text that is escaped and unescaped again
MaxLenPlain == 3

AlphaPlain == {BSLASH, DQUOTE, LF, CR, TAB, LETTER_N, LETTER_R, LETTER_T}

\* the JSON escape of one character: the backslash doubled, the quote and the
\* control characters written as backslash sequences
EscapeChar(c) ==
    IF c = BSLASH THEN <<BSLASH, BSLASH>>
    ELSE IF c = DQUOTE THEN <<BSLASH, DQUOTE>>
    ELSE IF c = LF THEN <<BSLASH, LETTER_N>>
    ELSE IF c = CR THEN <<BSLASH, LETTER_R>>
    ELSE IF c = TAB THEN <<BSLASH, LETTER_T>>
    ELSE <<c>>

RECURSIVE EscapeJson(_)
\* the escaped form of s, as it stands between the quotes of a JSON string
EscapeJson(s) ==
    IF s = <<>> THEN <<>> ELSE EscapeChar(Head(s)) \o EscapeJson(Tail(s))

UnescapeInit ==
    /\ ScanIdle
    /\ CallIdle
    /\ AppIdle
    /\ current \in StringsOver(AlphaPlain, MaxLenPlain)
    /\ responseText = EscapeJson(current)
    /\ pPc = "unescape"
    /\ route = "none"
    /\ parsed = Undefined
    /\ result = Undefined
    /\ pErr = ""

\* return unescapeJsonString(raw)
Unescape ==
    /\ pPc = "unescape"
    /\ parsed' = JStr(unescapeJsonString(responseText))
    /\ pPc' = "unescaped"
    /\ UNCHANGED <<responseText, current, route, result, pErr>>
    /\ UNCHANGED scanVars
    /\ UNCHANGED callVars
    /\ UNCHANGED appVars

UnescapeNext == Unescape

SpecUnescape == UnescapeInit /\ [][UnescapeNext]_vars

\* C26: unescapeJsonString gives back every text from its escaped form; an
\* escaped backslash followed by n comes back as a backslash followed by n.
C26_UnescapeInverts ==
    pPc = "unescaped" => parsed = JStr(current)

\* ------------------------------------------------------------------------
\* PdfPreview: the effect on [code, data] and its generatePdf (part_001:21-263)

\* what a step of the preview leaves alone
restOfPreview == <<scanVars, pipeVars, callVars, sessionVars, templateVars,
                   libraryVars>>

PreviewInit ==
    /\ ScanIdle
    /\ PipeIdle
    /\ CallIdle
    /\ PreviewIdle
    /\ SessionIdle
    /\ TemplatesIdle
    /\ LibraryIdle

\* catch (e): if (mounted) { setError(msg); setLoading(false); }
Caught(g) ==
    /\ IF mounted[g]
       THEN previewError' = g /\ loading' = FALSE
       ELSE UNCHANGED <<previewError, loading>>
    /\ genPc' = [genPc EXCEPT ![g] = IF mounted[g] THEN "done" ELSE "dropped"]
    /\ UNCHANGED <<pdfUrl, generation, mounted, unmounted>>

\* "4. Generate Real PDF": if (mounted) createPdf(finalDocDef).getDataUrl(...)
Generated(g) ==
    /\ genPc' = [genPc EXCEPT ![g] = IF mounted[g] THEN "dataUrl" ELSE "dropped"]
    /\ UNCHANGED <<pdfUrl, previewError, loading, generation, mounted, unmounted>>

\* RunEffect without the cleanup of the run before it.
RunEffectNoCleanup ==
    /\ ~unmounted
    /\ generation < MaxGenerations
    /\ generation' = generation + 1
    /\ mounted' = [g \in Generations |->
                      IF g = generation + 1 THEN TRUE ELSE mounted[g]]
    /\ pdfUrl' = pdfUrl
    /\ \/ /\ loading' = TRUE
          /\ previewError' = 0
          /\ genPc' = [genPc EXCEPT ![generation + 1] = "strategy1"]
       \/ /\ loading' = FALSE
          /\ previewError' = generation + 1
          /\ genPc' = [genPc EXCEPT ![generation + 1] = "done"]
    /\ UNCHANGED unmounted
    /\ UNCHANGED restOfPreview

\* The component mounts, or code or data change: the cleanup of the effect
\* before this one (mounted = false), then let mounted = true; generatePdf()
\* up to its first await, or to its catch when window.pdfMake is missing.
RunEffect ==
    /\ ~unmounted
    /\ generation < MaxGenerations
    /\ generation' = generation + 1
    /\ mounted' = [g \in Generations |->
                      IF g = generation + 1 THEN TRUE
                      ELSE IF g = generation THEN FALSE ELSE mounted[g]]
    /\ pdfUrl' = pdfUrl
    /\ \/ /\ loading' = TRUE
          /\ previewError' = 0
          /\ genPc' = [genPc EXCEPT ![generation + 1] = "strategy1"]
       \/ /\ loading' = FALSE
          /\ previewError' = generation + 1
          /\ genPc' = [genPc EXCEPT ![generation + 1] = "done"]
    /\ UNCHANGED unmounted
    /\ UNCHANGED restOfPreview

\* The component is unmounted: the cleanup of the current effect.
Unmount ==
    /\ ~unmounted
    /\ generation > 0
    /\ mounted' = [g \in Generations |-> FALSE]
    /\ unmounted' = TRUE
    /\ UNCHANGED <<generation, genPc, pdfUrl, previewError, loading>>
    /\ UNCHANGED restOfPreview

\* finalDocDef = await cleanAndRun(code) returned: the checks of the
\* definition pass or throw.
Strategy1Returns(g) ==
    /\ genPc[g] = "strategy1"
    /\ Generated(g) \/ Caught(g)
    /\ UNCHANGED restOfPreview

\* await cleanAndRun(code) threw: strategy 2 awaits cleanAndRun(extractedBody),
\* strategy 3 evaluates the object at once, or e1 is thrown again.
Strategy1Throws(g) ==
    /\ genPc[g] = "strategy1"
    /\ \/ /\ genPc' = [genPc EXCEPT ![g] = "strategy2"]
          /\ UNCHANGED <<pdfUrl, previewError, loading, generation, mounted,
                         unmounted>>
       \/ Generated(g)
       \/ Caught(g)
    /\ UNCHANGED restOfPreview

\* await cleanAndRun(extractedBody) returned or threw
Strategy2Settles(g) ==
    /\ genPc[g] = "strategy2"
    /\ Generated(g) \/ Caught(g)
    /\ UNCHANGED restOfPreview

\* the callback of getDataUrl: if (mounted) { setPdfUrl(dataUrl);
\* setLoading(false); }
DataUrlCallback(g) ==
    /\ genPc[g] = "dataUrl"
    /\ IF mounted[g]
       THEN pdfUrl' = g /\ loading' = FALSE
       ELSE UNCHANGED <<pdfUrl, loading>>
    /\ genPc' = [genPc EXCEPT ![g] = IF mounted[g] THEN "done" ELSE "dropped"]
    /\ UNCHANGED <<previewError, generation, mounted, unmounted>>
    /\ UNCHANGED restOfPreview

PreviewNext ==
    \/ RunEffect
    \/ Unmount
    \/ \E g \in Generations : Strategy1Returns(g)
    \/ \E g \in Generations : Strategy1Throws(g)
    \/ \E g \in Generations : Strategy2Settles(g)
    \/ \E g \in Generations : DataUrlCallback(g)

SpecPreview == PreviewInit /\ [][PreviewNext]_vars

\* what the component renders: the spinner, the message or the document
Shown ==
    IF loading THEN [kind |-> "loading", of |-> 0]
    ELSE IF previewError # 0 THEN [kind |-> "error", of |-> previewError]
    ELSE [kind |-> "pdf", of |-> pdfUrl]

\* a run of generatePdf that was started and whose effect was cleaned up
CleanedUp(g) == genPc[g] # "none" /\ ~mounted[g]

\* C27: a step of a generation whose effect was cleaned up leaves pdfUrl,
\* error and loading as they are, and the document or message shown is that
\* of the latest run of the effect.
C27_StaleGenerationSilent ==
    /\ [](Shown.kind # "loading" => Shown.of = generation)
    /\ [][\A g \in Generations :
              (CleanedUp(g) /\ genPc'[g] # genPc[g])
                  => UNCHANGED <<pdfUrl, previewError, loading>>]_vars

\* an earlier run finished after its cleanup, and the document of the latest
\* run is shown
C27_Witness ==
    /\ \E g \in Generations : g < generation /\ genPc[g] = "dropped"
    /\ Shown = [kind |-> "pdf", of |-> generation]

\* ------------------------------------------------------------------------
\* App: login, logout and runAnalysis (part_000:71-190)

\* what a step of the session leaves alone
restOfSession == <<scanVars, pipeVars, callVars, previewVars, templateVars,
                   libraryVars>>

SessionInit ==
    /\ ScanIdle
    /\ PipeIdle
    /\ CallIdle
    /\ PreviewIdle
    /\ TemplatesIdle
    /\ LibraryIdle
    /\ user = "null"
    /\ envKey \in BOOLEAN
    /\ targetFile = FALSE
    /\ isAnalyzing = FALSE
    /\ showKeyModal = FALSE
    /\ appResult = 0
    /\ appError = 0
    /\ logs = <<>>
    /\ analyses = 0
    /\ analysisPc = "idle"
    /\ logoutAt = 0

\* setUser({ username, apiKey: savedApiKey || undefined })
handleLogin ==
    /\ user = "null"
    /\ user' \in {"nokey", "key"}
    /\ UNCHANGED <<envKey, targetFile, isAnalyzing, showKeyModal, appResult,
                   appError, logs, analyses, analysisPc, logoutAt>>
    /\ UNCHANGED restOfSession

\* setUser(null); setResult(null); setTargetFile(null); setLogs([]);
\* setError(null)
handleLogout ==
    /\ user # "null"
    /\ user' = "null"
    /\ appResult' = 0
    /\ targetFile' = FALSE
    /\ logs' = <<>>
    /\ appError' = 0
    /\ logoutAt' = analyses
    /\ UNCHANGED <<envKey, isAnalyzing, showKeyModal, analyses, analysisPc>>
    /\ UNCHANGED restOfSession

\* setUser({ ...user, apiKey }); setShowKeyModal(false)
handleSaveKey ==
    /\ user # "null"
    /\ showKeyModal
    /\ user' = "key"
    /\ showKeyModal' = FALSE
    /\ UNCHANGED <<envKey, targetFile, isAnalyzing, appResult, appError, logs,
                   analyses, analysisPc, logoutAt>>
    /\ UNCHANGED restOfSession

\* setTargetFile(files[0]); setResult(null); setError(null); setLogs([])
handleTargetSelect ==
    /\ user # "null"
    /\ targetFile' = TRUE
    /\ appResult' = 0
    /\ appError' = 0
    /\ logs' = <<>>
    /\ UNCHANGED <<user, envKey, isAnalyzing, showKeyModal, analyses, analysisPc,
                   logoutAt>>
    /\ UNCHANGED restOfSession

\* The button "Generate Code" (disabled={!targetFile || isAnalyzing}):
\* runAnalysis up to its await of analyzeDocument.
runAnalysis ==
    /\ user # "null"
    /\ targetFile
    /\ ~isAnalyzing
    /\ analyses < MaxAnalyses
    /\ IF ~(user = "key" \/ envKey)
       THEN /\ showKeyModal' = TRUE
            /\ UNCHANGED <<isAnalyzing, appError, appResult, logs, analyses,
                           analysisPc>>
       ELSE /\ isAnalyzing' = TRUE
            /\ appError' = 0
            /\ appResult' = 0
            /\ analyses' = analyses + 1
            /\ logs' = <<analyses + 1>>
            /\ analysisPc' = "awaiting"
            /\ UNCHANGED showKeyModal
    /\ UNCHANGED <<user, envKey, targetFile, logoutAt>>
    /\ UNCHANGED restOfSession

\* analyzeDocument calls addLog
AnalysisLogs ==
    /\ analysisPc = "awaiting"
    /\ Len(logs) <= MaxProgress
    /\ logs' = Append(logs, analyses)
    /\ UNCHANGED <<user, envKey, targetFile, isAnalyzing, showKeyModal, appResult,
                   appError, analyses, analysisPc, logoutAt>>
    /\ UNCHANGED restOfSession

\* analyzeDocument returned: setResult(data); finally setIsAnalyzing(false)
AnalysisResolves ==
    /\ analysisPc = "awaiting"
    /\ appResult' = analyses
    /\ isAnalyzing' = FALSE
    /\ analysisPc' = "idle"
    /\ UNCHANGED <<user, envKey, targetFile, showKeyModal, appError, logs,
                   analyses, logoutAt>>
    /\ UNCHANGED restOfSession

\* analyzeDocument threw: setError(errorMsg); addLog(...); finally
\* setIsAnalyzing(false)
AnalysisRejects ==
    /\ analysisPc = "awaiting"
    /\ appError' = analyses
    /\ logs' = Append(logs, analyses)
    /\ isAnalyzing' = FALSE
    /\ analysisPc' = "idle"
    /\ UNCHANGED <<user, envKey, targetFile, showKeyModal, appResult, analyses,
                   logoutAt>>
    /\ UNCHANGED restOfSession

SessionNext ==
    \/ handleLogin
    \/ handleLogout
    \/ handleSaveKey
    \/ handleTargetSelect
    \/ runAnalysis
    \/ AnalysisLogs
    \/ AnalysisResolves
    \/ AnalysisRejects

SpecSession == SessionInit /\ [][SessionNext]_vars

\* the analysis a was started before the last handleLogout
BeforeLogout(a) == a <= logoutAt

\* C28: after handleLogout, result, error and the log list hold nothing of
\* an analysis started before the logout: they stay empty until runAnalysis
\* is invoked again.
C28_LogoutClears ==
    /\ appResult # 0 => ~BeforeLogout(appResult)
    /\ appError # 0 => ~BeforeLogout(appError)
    /\ \A k \in 1..Len(logs) : ~BeforeLogout(logs[k])

\* ------------------------------------------------------------------------
\* App: removeReference (part_000:139-152) and deleteTemplate
\* (templateStorage.ts:115-125)

\* what a step on the reference files leaves alone
restOfTemplates == <<scanVars, pipeVars, callVars, previewVars, sessionVars,
                     libraryVars>>

Files == 1..MaxFiles

\* the files saved by saveTemplate carry a _dbId; the last one is a file
\* whose save failed and that was added without one
DbFiles == 1..(MaxFiles - 1)

\* the record of the store for the file f
Stored(f) == [id |-> f, name |-> f]

StoredIds == {r.id : r \in store}

\* prev.filter((_, i) => i !== index)
FilterIndex(prev, index) ==
    SelectSeq([k \in 1..Len(prev) |-> [at |-> k - 1, f |-> prev[k]]],
              LAMBDA e : e.at # index)

FilesOf(entries) == [k \in 1..Len(entries) |-> entries[k].f]

\* referenceFiles[index], 0 when there is none
FileAt(list, index) ==
    IF index < Len(list) THEN list[index + 1] ELSE 0

RemoveInit ==
    /\ ScanIdle
    /\ PipeIdle
    /\ CallIdle
    /\ PreviewIdle
    /\ SessionIdle
    /\ LibraryIdle
    /\ referenceFiles \in {l \in [1..MaxFiles -> Files] :
                              \A a, b \in 1..MaxFiles : l[a] = l[b] => a = b}
    /\ store = {Stored(f) : f \in DbFiles}
    /\ removals = [c \in Removals |-> NoRemoval]

\* removeReference(index), clicked on the list as displayed: a file without
\* _dbId is filtered out at once, else deleteTemplate is awaited.
removeReference(c, index) ==
    /\ removals[c].pc = "none"
    /\ \A d \in Removals : d < c => removals[d].pc # "none"
    /\ index < Len(referenceFiles)
    /\ \E f \in {FileAt(referenceFiles, index)} :
          IF f \in DbFiles
          THEN /\ removals' = [removals EXCEPT ![c] =
                                  [pc |-> "deleting", index |-> index,
                                   file |-> f, removed |-> 0]]
               /\ UNCHANGED referenceFiles
          ELSE /\ removals' = [removals EXCEPT ![c] =
                                  [pc |-> "done", index |-> index,
                                   file |-> f, removed |-> f]]
               /\ referenceFiles' = FilesOf(FilterIndex(referenceFiles, index))
    /\ UNCHANGED store
    /\ UNCHANGED restOfTemplates

\* deleteTemplate: store.delete(id) succeeded
DeleteSucceeds(c) ==
    /\ removals[c].pc = "deleting"
    /\ store' = {r \in store : r.id # removals[c].file}
    /\ removals' = [removals EXCEPT ![c].pc = "deleted"]
    /\ UNCHANGED referenceFiles
    /\ UNCHANGED restOfTemplates

\* deleteTemplate rejected: catch (e) { console.error(...) }
DeleteFails(c) ==
    /\ removals[c].pc = "deleting"
    /\ removals' = [removals EXCEPT ![c].pc = "deleted"]
    /\ UNCHANGED <<referenceFiles, store>>
    /\ UNCHANGED restOfTemplates

\* setReferenceFiles(prev => prev.filter((_, i) => i !== index))
RemovalCompletes(c) ==
    /\ removals[c].pc = "deleted"
    /\ referenceFiles' = FilesOf(FilterIndex(referenceFiles, removals[c].index))
    /\ removals' = [removals EXCEPT ![c].pc = "done",
                                    ![c].removed =
                                        FileAt(referenceFiles, removals[c].index)]
    /\ UNCHANGED store
    /\ UNCHANGED restOfTemplates

RemoveNext ==
    \/ \E c \in Removals, index \in 0..(MaxFiles - 1) : removeReference(c, index)
    \/ \E c \in Removals : DeleteSucceeds(c)
    \/ \E c \in Removals : DeleteFails(c)
    \/ \E c \in Removals : RemovalCompletes(c)

SpecRemove == RemoveInit /\ [][RemoveNext]_vars

InList(f) == \E k \in 1..Len(referenceFiles) : referenceFiles[k] = f

AllRemovalsComplete == \A c \in Removals : removals[c].pc \in {"none", "done"}

\* C29: each call of removeReference takes from the list the file that was
\* at its index when it was called, the one it deleted from the store; once
\* all calls are complete, a file with a store id is in the list exactly if
\* it is in the store.
C29_RemovesWhatItDeleted ==
    /\ \A c \in Removals :
          removals[c].pc = "done" => removals[c].removed = removals[c].file
    /\ AllRemovalsComplete =>
          \A f \in DbFiles : InList(f) <=> f \in StoredIds

\* ------------------------------------------------------------------------
\* templateStorage.loadSharedLibrary (templateStorage.ts:161-189) and
\* saveTemplate (templateStorage.ts:56-89)

\* what a step of loadSharedLibrary leaves alone
restOfLibrary == <<scanVars, pipeVars, callVars, previewVars, sessionVars,
                   referenceFiles, removals>>

SharedNames == 1..MaxNames

\* the contents of /default-library.json: the names of its items in order
Libraries == UNION {[1..k -> SharedNames] : k \in 0..MaxItems}

NamesIn(records) == {r.name : r \in records}

\* const id = crypto.randomUUID(): an id no record has
FreshId(records) ==
    1 + CHOOSE m \in {0} \cup {r.id : r \in records} :
            \A r \in records : r.id <= m

RECURSIVE NextNew(_, _, _)
\* the loop up to the next item whose name is not in currentNames: its
\* index, or Len(lib) + 1 when the loop ends
NextNew(lib, names, k) ==
    IF k > Len(lib) THEN k
    ELSE IF lib[k] \notin names THEN k
    ELSE NextNew(lib, names, k + 1)

LibraryInit ==
    /\ ScanIdle
    /\ PipeIdle
    /\ CallIdle
    /\ PreviewIdle
    /\ SessionIdle
    /\ referenceFiles = <<>>
    /\ removals = [c \in Removals |-> NoRemoval]
    /\ library \in Libraries
    /\ store \in SUBSET {Stored(n) : n \in SharedNames}
    /\ loads = [c \in Loads |-> NoLoad]

\* loadSharedLibrary() up to await fetch('/default-library.json')
loadSharedLibrary(c) ==
    /\ loads[c].pc = "none"
    /\ \A d \in Loads : d < c => loads[d].pc # "none"
    /\ loads' = [loads EXCEPT ![c].pc = "fetch",
                              ![c].allStored =
                                  \A k \in 1..Len(library) :
                                      library[k] \in NamesIn(store)]
    /\ UNCHANGED <<library, store>>
    /\ UNCHANGED restOfLibrary

\* if (!response.ok) return false; if (!Array.isArray(data)) return false;
\* or fetch, json or getAllTemplates threw: catch (e) { return false; }
LoadFails(c) ==
    /\ loads[c].pc \in {"fetch", "list"}
    /\ loads' = [loads EXCEPT ![c].pc = "done", ![c].ret = FALSE]
    /\ UNCHANGED <<library, store>>
    /\ UNCHANGED restOfLibrary

\* data = await response.json(); up to await this.getAllTemplates()
LibraryFetched(c) ==
    /\ loads[c].pc = "fetch"
    /\ loads' = [loads EXCEPT ![c].pc = "list"]
    /\ UNCHANGED <<library, store>>
    /\ UNCHANGED restOfLibrary

\* the position of the call c when its loop stands at the index k
LoopAt(l, k) ==
    IF k > Len(library)
    THEN [l EXCEPT !.pc = "done", !.at = k, !.ret = l.hasNew]
    ELSE [l EXCEPT !.pc = "save", !.at = k]

\* currentNames = new Set(currentTemplates.map(t => t.name)); the loop up to
\* the first item to save, or to return hasNew
TemplatesListed(c) ==
    /\ loads[c].pc = "list"
    /\ \E names \in {NamesIn(store)} :
          loads' = [loads EXCEPT ![c] =
                       LoopAt([loads[c] EXCEPT !.names = names],
                              NextNew(library, names, 1))]
    /\ UNCHANGED <<library, store>>
    /\ UNCHANGED restOfLibrary

\* await this.saveTemplate(file, 'System (Shared)', true): store.add(record)
\* succeeded; hasNew = true; the loop up to the next item to save, or to
\* return hasNew
TemplateSaved(c) ==
    /\ loads[c].pc = "save"
    /\ store' = store \cup {[id |-> FreshId(store), name |-> library[loads[c].at]]}
    /\ loads' = [loads EXCEPT ![c] =
                    LoopAt([loads[c] EXCEPT !.hasNew = TRUE,
                                            !.added = loads[c].added + 1],
                           NextNew(library, loads[c].names, loads[c].at + 1))]
    /\ UNCHANGED library
    /\ UNCHANGED restOfLibrary

\* base64ToFile or saveTemplate threw: catch (e) { return false; }
SaveFails(c) ==
    /\ loads[c].pc = "save"
    /\ loads' = [loads EXCEPT ![c].pc = "done", ![c].ret = FALSE]
    /\ UNCHANGED <<library, store>>
    /\ UNCHANGED restOfLibrary

LibraryNext ==
    \/ \E c \in Loads : loadSharedLibrary(c)
    \/ \E c \in Loads : LoadFails(c)
    \/ \E c \in Loads : LibraryFetched(c)
    \/ \E c \in Loads : TemplatesListed(c)
    \/ \E c \in Loads : TemplateSaved(c)
    \/ \E c \in Loads : SaveFails(c)

SpecLibrary == LibraryInit /\ [][LibraryNext]_vars

\* C30: the store holds at most one template of each name of the shared
\* library, and a call of loadSharedLibrary made when every name of the
\* library is stored adds nothing and returns false.
C30_OnlyNewAdded ==
    /\ \A n \in SharedNames : Cardinality({r \in store : r.name = n}) <= 1
    /\ \A c \in Loads :
          (loads[c].pc = "done" /\ loads[c].allStored)
              => (loads[c].added = 0 /\ ~loads[c].ret)

====
